---- MODULE Spec2Model ----
(***************************************************************************)
(* Order creation handling of the trading engine                           *)
(* (core/exchanges/general/order/create.rs): the orders pool with its      *)
(* three indexes, the creation-success and creation-failure handlers and   *)
(* the create_order procedure around them.                                 *)
(***************************************************************************)
EXTENDS Integers, Sequences, FiniteSets, TLC

\* ------------------------------------------------------------------ bounds
MaxOrders == 2
MaxExchangeIds == 2
MaxCalls == 4
MaxTokens == 3
MaxTasks == 2
MaxTokenCalls == 3
MaxBalance == 2
MaxPrice == 2
MaxAmount == 2
MaxBalanceCalls == 3
MaxReservations == 3
MaxLegAmount == 1
MaxTransactions == 2
MaxTransactionCalls == 3
MaxAdds == 2

\* ------------------------------------------------------------ value domains
\* Option<T>: None is the empty tuple, Some(x) the one-element tuple.
None == <<>>
Some(x) == <<x>>

\* A ClientOrderId / ExchangeOrderId is a string; EmptyId is the one for
\* which as_str().is_empty() holds.
EmptyId == <<>>
ClientOrderIds == {<<i>> : i \in 1..MaxOrders}
ExchangeOrderIds == {<<i>> : i \in 1..MaxExchangeIds}

OrderStatus ==
    {"Creating", "Created", "Canceling", "Canceled", "Completed",
     "FailedToCreate", "FailedToCancel"}

EventSourceType == {"Rest", "WebSocket"}

ExchangeErrorType == {"ParsingError", "InvalidOrder", "InsufficientFunds"}
\* The ExchangeError values the exchange answers with.
ExchangeError ==
    {[error_type |-> "ParsingError", message |-> "bad json"],
     [error_type |-> "InvalidOrder", message |-> "rejected"],
     [error_type |-> "InsufficientFunds", message |-> "no funds"]}

\* RequestResult<ExchangeOrderId>
Success(exchange_order_id) == [tag |-> "Success", id |-> exchange_order_id, error |-> None]
Error(exchange_error) == [tag |-> "Error", id |-> EmptyId, error |-> Some(exchange_error)]

\* Result<()> of the handlers
Ok == "Ok"
Err == "Err"

\* ------------------------------------------------------------------- state
VARIABLES
    orders,         \* orders.by_client_id: client order id -> order snapshot
    by_exchange_id, \* orders.by_exchange_id: exchange order id -> client id of the OrderRef
    not_finished,   \* orders.not_finished: client ids of the orders not finished
    events,         \* client id -> the event types add_event_on_order_change got, in order
    in_flight,      \* create_order calls awaiting create_order_core
    calls,          \* number of operations so far
    last            \* the last operation: what was called and what it returned

vars == <<orders, by_exchange_id, not_finished, events, in_flight, calls, last>>

\* The cancellation tokens (exchanges/cancellation_token.rs).
VARIABLES
    tokens,          \* token id -> its CancellationState and how it came to be
    tasks,           \* task -> its stack of calls into the token code
    cancel_called,   \* tokens a caller has called cancel() on
    cancel_returned, \* tokens a caller's cancel() has returned for
    token_calls      \* number of calls tasks have made so far

token_vars == <<tokens, tasks, cancel_called, cancel_returned, token_calls>>

\* The balance manager (balance_manager, balances/virtual_balance_holder.rs).
VARIABLES
    balance_by_exchange_id, \* account -> currency -> balance of the last snapshot
    balance_diff,           \* balance request -> diff since the last snapshot
    reservations,           \* reservation id -> reservation
    reservation_id,         \* the last reservation id handed out
    balance_calls,          \* number of calls made so far
    balance_last            \* the last call, its result, the balance around it

balance_vars == <<balance_by_exchange_id, balance_diff, reservations, reservation_id,
                  balance_calls, balance_last>>

\* The launch of the trading engine (lifecycle/launcher.rs).
VARIABLES
    launch_stage,       \* where launch_trading_engine is
    launch_step,        \* the step of the stage that comes next
    init_user_settings, \* the InitSettings it was called with
    lifetime_manager,   \* None before init_lifetime_manager, then the reason of
                        \* the graceful shutdown asked for, if any
    ctrl_c,             \* the Ctrl-C handler task
    launch_result,      \* what launch_trading_engine returned, None before
    launch_panic        \* the stage and step a panic was raised at, None without

launch_vars == <<launch_stage, launch_step, init_user_settings, lifetime_manager,
                 ctrl_c, launch_result, launch_panic>>

\* The transactions and their recorder (database/events/transaction.rs).
VARIABLES
    transactions,      \* transaction id -> TransactionSnapshot
    saves,             \* transaction id -> number of save calls made on it
    event_recorder,    \* the snapshot the event recorder was handed last, None before
    transaction_calls, \* number of calls made so far
    transaction_last   \* the last call and its result

transaction_vars == <<transactions, saves, event_recorder, transaction_calls,
                      transaction_last>>

\* The orders pool and the events, as one value the handlers work on.
Pool == [orders |-> orders, by_exchange_id |-> by_exchange_id,
         not_finished |-> not_finished, events |-> events]

\* ------------------------------------------------------ orders/order, pool
is_finished(status) ==
    status \in {"Canceled", "Completed", "FailedToCreate", "FailedToCancel"}

\* OrderSnapshot::set_status
set_status(order, new_status) == [order EXCEPT !.status = new_status]

\* The snapshot add_simple_initial stores for a new order.
InitialOrder ==
    [status |-> "Creating",
     exchange_order_id |-> None,
     creation_event_source_type |-> None,
     last_creation_error_type |-> None,
     last_creation_error_message |-> None,
     cancellation_event_was_raised |-> FALSE]

\* OrdersPool::add_simple_initial
add_simple_initial(st, client_order_id) ==
    [st EXCEPT !.orders = [c \in DOMAIN st.orders \cup {client_order_id} |->
                             IF c = client_order_id THEN InitialOrder ELSE st.orders[c]],
               !.not_finished = @ \cup {client_order_id}]

\* --------------------------------------------------- create.rs: the handlers
\* What a handler gives back: the pool after it and its Result<()>.
Outcome(st, result) == [st |-> st, result |-> result]

\* add_event_on_order_change without the removal from not_finished.
add_event_on_order_change_keeping(st, client_order_id, event_type) ==
    LET flagged ==
            IF event_type = "CancelOrderSucceeded"
            THEN [st EXCEPT !.orders[client_order_id].cancellation_event_was_raised = TRUE]
            ELSE st
    IN  [flagged EXCEPT !.events[client_order_id] = Append(@, event_type)]

\* Exchange::add_event_on_order_change. The order is the one of client_order_id,
\* as the handler has left it in st.
add_event_on_order_change(st, client_order_id, event_type) ==
    LET flagged ==
            IF event_type = "CancelOrderSucceeded"
            THEN [st EXCEPT !.orders[client_order_id].cancellation_event_was_raised = TRUE]
            ELSE st
        removed ==
            IF is_finished(flagged.orders[client_order_id].status)
            THEN [flagged EXCEPT !.not_finished = @ \ {client_order_id}]
            ELSE flagged
    IN  [removed EXCEPT !.events[client_order_id] = Append(@, event_type)]

\* Exchange::log_error_and_propagate
log_error_and_propagate(st) == Outcome(st, Err)

\* when_failed_creating without the line that stores the error message.
when_failed_creating_without_message(st, client_order_id, exchange_error) ==
    LET failed ==
            [st EXCEPT !.orders[client_order_id] =
                [set_status(@, "FailedToCreate") EXCEPT
                    !.last_creation_error_type = Some(exchange_error.error_type)]]
    IN  Outcome(add_event_on_order_change(failed, client_order_id, "CreateOrderFailed"), Ok)

\* Exchange::react_on_status_when_failed, the arm of OrderStatus::Creating
when_failed_creating(st, client_order_id, exchange_error) ==
    LET failed ==
            [st EXCEPT !.orders[client_order_id] =
                [set_status(@, "FailedToCreate") EXCEPT
                    !.last_creation_error_type = Some(exchange_error.error_type),
                    !.last_creation_error_message = Some(exchange_error.message)]]
    IN  Outcome(add_event_on_order_change(failed, client_order_id, "CreateOrderFailed"), Ok)

\* react_on_status_when_failed with the arm of FailedToCreate taking the path of
\* Creating: every repeated failure is recorded and raised again.
react_on_status_when_failed_again(st, client_order_id, exchange_error) ==
    LET status == st.orders[client_order_id].status IN
    CASE status \in {"FailedToCreate", "Creating"} ->
            when_failed_creating(st, client_order_id, exchange_error)
      [] OTHER -> log_error_and_propagate(st)

\* react_on_status_when_failed with the arm of Created taking the path of
\* Creating: a failure that follows a success marks the order failed.
react_on_status_when_failed_after_created(st, client_order_id, exchange_error) ==
    LET status == st.orders[client_order_id].status IN
    CASE status \in {"Created", "Creating"} ->
            when_failed_creating(st, client_order_id, exchange_error)
      [] status = "FailedToCreate" -> Outcome(st, Ok)
      [] OTHER -> log_error_and_propagate(st)

\* Exchange::react_on_status_when_failed
react_on_status_when_failed(st, client_order_id, exchange_error) ==
    LET status == st.orders[client_order_id].status IN
    CASE status = "Created" -> log_error_and_propagate(st)
      [] status = "FailedToCreate" -> Outcome(st, Ok)
      [] status = "Canceling" -> log_error_and_propagate(st)
      [] status = "Canceled" -> log_error_and_propagate(st)
      [] status = "Completed" -> log_error_and_propagate(st)
      [] status = "FailedToCancel" -> log_error_and_propagate(st)
      [] status = "Creating" -> when_failed_creating(st, client_order_id, exchange_error)

\* handle_create_order_failed with the None arm storing the order it did not
\* find, as a failed one.
handle_create_order_failed_storing(st, client_order_id, exchange_error, source_type) ==
    IF client_order_id = EmptyId
    THEN Outcome(st, Err)
    ELSE IF client_order_id \notin DOMAIN st.orders
         THEN react_on_status_when_failed(add_simple_initial(st, client_order_id),
                                          client_order_id, exchange_error)
         ELSE react_on_status_when_failed(st, client_order_id, exchange_error)

\* Exchange::handle_create_order_failed
handle_create_order_failed(st, client_order_id, exchange_error, source_type) ==
    IF client_order_id = EmptyId
    THEN Outcome(st, Err)
    ELSE IF client_order_id \notin DOMAIN st.orders
         THEN Outcome(st, Err)
         ELSE react_on_status_when_failed(st, client_order_id, exchange_error)

\* Exchange::log_warn
log_warn(st) == Outcome(st, Ok)

\* when_succeed_creating without the insert into by_exchange_id.
when_succeed_creating_without_index(st, client_order_id, exchange_order_id, source_type) ==
    IF exchange_order_id \in DOMAIN st.by_exchange_id
    THEN Outcome(st, Ok)
    ELSE LET created ==
                [st EXCEPT
                    !.orders[client_order_id] =
                        [set_status(@, "Created") EXCEPT
                            !.creation_event_source_type = Some(source_type)]]
         IN  Outcome(add_event_on_order_change(created, client_order_id,
                                               "CreateOrderSucceeded"), Ok)

\* Exchange::react_on_status_when_succeed, the arm of OrderStatus::Creating
when_succeed_creating(st, client_order_id, exchange_order_id, source_type) ==
    IF exchange_order_id \in DOMAIN st.by_exchange_id
    THEN Outcome(st, Ok)
    ELSE LET created ==
                [st EXCEPT
                    !.orders[client_order_id] =
                        [set_status(@, "Created") EXCEPT
                            !.creation_event_source_type = Some(source_type)],
                    !.by_exchange_id =
                        [e \in DOMAIN st.by_exchange_id \cup {exchange_order_id} |->
                            IF e = exchange_order_id THEN client_order_id
                            ELSE st.by_exchange_id[e]]]
         IN  Outcome(add_event_on_order_change(created, client_order_id,
                                               "CreateOrderSucceeded"), Ok)

\* react_on_status_when_succeed with the arm of FailedToCreate only warning,
\* like the other arms.
react_on_status_when_succeed_warning(st, client_order_id, exchange_order_id, source_type) ==
    LET status == st.orders[client_order_id].status IN
    CASE status = "Creating" ->
            when_succeed_creating(st, client_order_id, exchange_order_id, source_type)
      [] OTHER -> log_warn(st)

\* react_on_status_when_succeed with the arm of FailedToCreate taking the path
\* of Creating: a success that follows a failure creates the order.
react_on_status_when_succeed_after_failed(st, client_order_id, exchange_order_id, source_type) ==
    LET status == st.orders[client_order_id].status IN
    CASE status \in {"FailedToCreate", "Creating"} ->
            when_succeed_creating(st, client_order_id, exchange_order_id, source_type)
      [] OTHER -> log_warn(st)

\* Exchange::react_on_status_when_succeed
react_on_status_when_succeed(st, client_order_id, exchange_order_id, source_type) ==
    LET status == st.orders[client_order_id].status IN
    CASE status = "FailedToCreate" -> Outcome(st, Err)
      [] status = "Created" -> log_warn(st)
      [] status = "Canceling" -> log_warn(st)
      [] status = "Canceled" -> log_warn(st)
      [] status = "Completed" -> log_warn(st)
      [] status = "FailedToCancel" -> log_warn(st)
      [] status = "Creating" ->
            when_succeed_creating(st, client_order_id, exchange_order_id, source_type)

\* handle_create_order_succeeded with the None arm storing the order it did
\* not find and going on with it.
handle_create_order_succeeded_storing(st, client_order_id, exchange_order_id, source_type) ==
    IF client_order_id = EmptyId
    THEN Outcome(st, Err)
    ELSE IF exchange_order_id = EmptyId
         THEN Outcome(st, Err)
         ELSE LET found == IF client_order_id \in DOMAIN st.orders THEN st
                           ELSE add_simple_initial(st, client_order_id)
              IN  react_on_status_when_succeed(
                      [found EXCEPT !.orders[client_order_id].exchange_order_id =
                                         Some(exchange_order_id)],
                      client_order_id, exchange_order_id, source_type)

\* handle_create_order_succeeded without the check of the exchange order id.
handle_create_order_succeeded_unchecked(st, client_order_id, exchange_order_id, source_type) ==
    IF client_order_id = EmptyId
    THEN Outcome(st, Err)
    ELSE IF client_order_id \notin DOMAIN st.orders
         THEN Outcome(st, Ok)
         ELSE react_on_status_when_succeed(
                 [st EXCEPT !.orders[client_order_id].exchange_order_id =
                                 Some(exchange_order_id)],
                 client_order_id, exchange_order_id, source_type)

\* Exchange::handle_create_order_succeeded
handle_create_order_succeeded(st, client_order_id, exchange_order_id, source_type) ==
    IF client_order_id = EmptyId
    THEN Outcome(st, Err)
    ELSE IF exchange_order_id = EmptyId
         THEN Outcome(st, Err)
         ELSE IF client_order_id \notin DOMAIN st.orders
              THEN Outcome(st, Ok)
              ELSE react_on_status_when_succeed(
                      [st EXCEPT !.orders[client_order_id].exchange_order_id =
                                      Some(exchange_order_id)],
                      client_order_id, exchange_order_id, source_type)

\* create_order_base handling a cancelled task as a creation failure.
create_order_base_failing_cancelled(st, client_order_id, response) ==
    IF response = None
    THEN handle_create_order_failed(
            st, client_order_id,
            [error_type |-> "InvalidOrder", message |-> "rejected"], "Rest")
    ELSE LET created_order == response[1] IN
         IF created_order.outcome.tag = "Success"
         THEN handle_create_order_succeeded(st, client_order_id,
                                            created_order.outcome.id,
                                            created_order.source_type)
         ELSE IF created_order.outcome.error[1].error_type # "ParsingError"
              THEN handle_create_order_failed(st, client_order_id,
                                              created_order.outcome.error[1],
                                              created_order.source_type)
              ELSE Outcome(st, Ok)

\* create_order_base handing a ParsingError to handle_create_order_failed like
\* every other error.
create_order_base_handling_parsing_error(st, client_order_id, response) ==
    IF response = None
    THEN Outcome(st, Err)
    ELSE LET created_order == response[1] IN
         IF created_order.outcome.tag = "Success"
         THEN handle_create_order_succeeded(st, client_order_id,
                                            created_order.outcome.id,
                                            created_order.source_type)
         ELSE handle_create_order_failed(st, client_order_id,
                                         created_order.outcome.error[1],
                                         created_order.source_type)

\* Exchange::create_order_base, from the point create_order_core has answered:
\* response is None when the task was cancelled, else Some(CreateOrderResult).
create_order_base(st, client_order_id, response) ==
    IF response = None
    THEN Outcome(st, Err)
    ELSE LET created_order == response[1] IN
         IF created_order.outcome.tag = "Success"
         THEN handle_create_order_succeeded(st, client_order_id,
                                            created_order.outcome.id,
                                            created_order.source_type)
         ELSE IF created_order.outcome.error[1].error_type # "ParsingError"
              THEN handle_create_order_failed(st, client_order_id,
                                              created_order.outcome.error[1],
                                              created_order.source_type)
              ELSE Outcome(st, Ok)

\* Exchange::match_created_order_outcome: Result<OrderRef>, the OrderRef given
\* by the client id of the order it points to.
match_created_order_outcome(st, outcome) ==
    IF outcome.tag = "Success"
    THEN IF outcome.id \in DOMAIN st.by_exchange_id
         THEN [ok |-> TRUE, order |-> Some(st.by_exchange_id[outcome.id])]
         ELSE [ok |-> FALSE, order |-> None]
    ELSE [ok |-> FALSE, order |-> None]

\* Exchange::create_order, the select! arm: what create_order returns once
\* create_order_base has finished with base (its pool and its Result).
create_order_return(base, response) ==
    IF base.result = Ok
    THEN match_created_order_outcome(base.st, response[1].outcome)
    ELSE [ok |-> FALSE, order |-> None]

\* ------------------------------------------------------------------ actions
\* ------------------------------------------------------ cancellation tokens
\* exchanges/cancellation_token.rs. A token is a handle on a shared
\* CancellationState; the handlers of a state are the closures
\* create_linked_token registers, each holding a weak reference to the state
\* of one linked token; the waiters of its Notify are the tasks parked in
\* when_cancelled.
TokenIds == 1..MaxTokens
Tasks == 1..MaxTasks

\* CancellationState::default() behind its Arc. state is what the Arc's strong
\* count says: "free" not created yet, "new" held by the create_linked_token
\* that is building it, "live" held by its callers, "dropped" no handle left.
\* source and source_was_cancelled record how the token was made, and
\* linked_while_cancelling whether the create_linked_token() that made it and
\* a cancel() called on its source were running at the same time.
CancellationState(state, source, source_was_cancelled) ==
    [state |-> state, is_cancellation_requested |-> FALSE, handlers |-> <<>>,
     source |-> source, source_was_cancelled |-> source_was_cancelled,
     linked_while_cancelling |-> FALSE]

\* One call a task is in: the method, the token it was called on, where in the
\* method the task stands, the next handler of cancel's iteration, the token
\* create_linked_token is building, and whether this cancel() was called on a
\* token a cancel() had returned for before.
Frame(op, token, pc, child, again) ==
    [op |-> op, token |-> token, pc |-> pc, i |-> 1, child |-> child, again |-> again]

Top(stack) == stack[Len(stack)]
Pop(stack) == SubSeq(stack, 1, Len(stack) - 1)
ReplaceTop(stack, frame) == [stack EXCEPT ![Len(stack)] = frame]
At(task, op, pc) ==
    /\ tasks[task] # <<>>
    /\ Top(tasks[task]).op = op
    /\ Top(tasks[task]).pc = pc

\* The handlers mutex of a token is held by the cancel() iterating them.
HandlersLocked(token) ==
    \E task \in Tasks : \E k \in DOMAIN tasks[task] :
        /\ tasks[task][k].op = "cancel"
        /\ tasks[task][k].token = token
        /\ tasks[task][k].pc = "handlers"

\* A cancel() a caller has called on the token has not returned yet.
CancelCallRunning(token) ==
    \E task \in Tasks :
        /\ tasks[task] # <<>>
        /\ tasks[task][1].op = "cancel"
        /\ tasks[task][1].token = token

\* The tokens a create_linked_token() called on the token is building.
BeingLinkedTo(token) ==
    {t \in TokenIds : tokens[t].state = "new" /\ tokens[t].source = Some(token)}

\* Some call of some task works on the token.
InUse(token) ==
    \E task \in Tasks : \E k \in DOMAIN tasks[task] :
        \/ tasks[task][k].token = token
        \/ tasks[task][k].child = Some(token)

store_toggling(ts, token) ==
    [ts EXCEPT ![token].is_cancellation_requested = ~@]

\* is_cancellation_requested.store(true, SeqCst)
store(ts, token) ==
    [ts EXCEPT ![token].is_cancellation_requested = TRUE]

is_cancellation_requested_never(ts, token) ==
    FALSE

is_cancellation_requested(ts, token) ==
    ts[token].is_cancellation_requested

register_handler_both_ways(ts, token, handler) ==
    [ts EXCEPT ![token].handlers = Append(@, handler),
               ![handler].handlers = Append(@, token)]

\* handlers.lock().push(handler)
register_handler(ts, token, handler) ==
    [ts EXCEPT ![token].handlers = Append(@, handler)]

handler_strong(ts, weak_cancellation_token) ==
    Some(weak_cancellation_token)

\* The handler of a linked token: the token to cancel if its weak reference
\* still upgrades, nothing otherwise.
handler(ts, weak_cancellation_token) ==
    IF ts[weak_cancellation_token].state \in {"new", "live"}
    THEN Some(weak_cancellation_token)
    ELSE None

\* signal.notify_waiters(): every task parked on the token returns from
\* when_cancelled; a task not parked yet gets nothing.
notify_waiters(tk, token) ==
    [task \in Tasks |->
        IF /\ tk[task] # <<>>
           /\ Top(tk[task]).op = "when_cancelled"
           /\ Top(tk[task]).token = token
           /\ Top(tk[task]).pc = "parked"
        THEN Pop(tk[task])
        ELSE tk[task]]

\* The new token of create_linked_token: the first free identity.
NewToken ==
    CHOOSE t \in TokenIds :
        /\ tokens[t].state = "free"
        /\ \A u \in TokenIds : tokens[u].state = "free" => t <= u

TokenInit ==
    /\ tokens = [t \in TokenIds |->
                    CancellationState(IF t = 1 THEN "live" ELSE "free", None, FALSE)]
    /\ tasks = [task \in Tasks |-> <<>>]
    /\ cancel_called = {}
    /\ cancel_returned = {}
    /\ token_calls = 0

\* A task calls cancel() on a token it holds: the flag is stored.
CancelCall(task, token) ==
    /\ token_calls < MaxTokenCalls
    /\ tasks[task] = <<>>
    /\ tokens[token].state = "live"
    /\ tokens' = [t \in TokenIds |->
                     IF t \in BeingLinkedTo(token)
                     THEN [store(tokens, token)[t] EXCEPT !.linked_while_cancelling = TRUE]
                     ELSE store(tokens, token)[t]]
    /\ tasks' = [tasks EXCEPT ![task] =
                    <<Frame("cancel", token, "lock", None, token \in cancel_returned)>>]
    /\ cancel_called' = cancel_called \cup {token}
    /\ token_calls' = token_calls + 1
    /\ UNCHANGED cancel_returned

\* cancel() takes the handlers mutex.
CancelLock(task) ==
    /\ At(task, "cancel", "lock")
    /\ ~HandlersLocked(Top(tasks[task]).token)
    /\ tasks' = [tasks EXCEPT ![task] =
                    ReplaceTop(@, [Top(@) EXCEPT !.pc = "handlers"])]
    /\ UNCHANGED <<tokens, cancel_called, cancel_returned, token_calls>>

\* cancel() runs its next handler: it cancels the linked token, or does
\* nothing when the linked token is gone.
CancelHandler(task) ==
    /\ At(task, "cancel", "handlers")
    /\ LET frame == Top(tasks[task])
           linked == handler(tokens, tokens[frame.token].handlers[frame.i])
           stepped == ReplaceTop(tasks[task], [frame EXCEPT !.i = @ + 1])
       IN  /\ frame.i <= Len(tokens[frame.token].handlers)
           /\ IF linked = None
              THEN /\ tasks' = [tasks EXCEPT ![task] = stepped]
                   /\ UNCHANGED tokens
              ELSE /\ tokens' = store(tokens, linked[1])
                   /\ tasks' = [tasks EXCEPT ![task] =
                                   Append(stepped,
                                          Frame("cancel", linked[1], "lock", None, frame.again))]
    /\ UNCHANGED <<cancel_called, cancel_returned, token_calls>>

\* cancel() has run every handler: it releases the mutex, notifies the
\* waiters and returns.
CancelNotify(task) ==
    /\ At(task, "cancel", "handlers")
    /\ LET frame == Top(tasks[task])
       IN  /\ frame.i > Len(tokens[frame.token].handlers)
           /\ tasks' = [notify_waiters(tasks, frame.token) EXCEPT ![task] = Pop(tasks[task])]
           /\ cancel_returned' = IF Len(tasks[task]) = 1
                                 THEN cancel_returned \cup {frame.token}
                                 ELSE cancel_returned
    /\ UNCHANGED <<tokens, cancel_called, token_calls>>

\* A task calls create_linked_token() on a token it holds: the new token is
\* built.
CreateLinkedTokenCall(task, token) ==
    /\ token_calls < MaxTokenCalls
    /\ tasks[task] = <<>>
    /\ tokens[token].state = "live"
    /\ \E t \in TokenIds : tokens[t].state = "free"
    /\ tokens' = [tokens EXCEPT ![NewToken] =
                     [CancellationState("new", Some(token),
                                        tokens[token].is_cancellation_requested)
                         EXCEPT !.linked_while_cancelling = CancelCallRunning(token)]]
    /\ tasks' = [tasks EXCEPT ![task] =
                    <<Frame("create_linked_token", token, "register", Some(NewToken), FALSE)>>]
    /\ token_calls' = token_calls + 1
    /\ UNCHANGED <<cancel_called, cancel_returned>>

\* create_linked_token() registers the handler of the new token on the source.
CreateLinkedTokenRegister(task) ==
    /\ At(task, "create_linked_token", "register")
    /\ LET frame == Top(tasks[task])
       IN  /\ ~HandlersLocked(frame.token)
           /\ tokens' = register_handler(tokens, frame.token, frame.child[1])
           /\ tasks' = [tasks EXCEPT ![task] = ReplaceTop(@, [frame EXCEPT !.pc = "check"])]
    /\ UNCHANGED <<cancel_called, cancel_returned, token_calls>>

\* create_linked_token() going by what the source reported before the handler
\* was registered.
CreateLinkedTokenCheck_before_register(task) ==
    /\ At(task, "create_linked_token", "check")
    /\ LET frame == Top(tasks[task])
           new_token == frame.child[1]
       IN  IF tokens[new_token].source_was_cancelled
           THEN /\ tokens' = store(tokens, new_token)
                /\ tasks' = [tasks EXCEPT ![task] =
                                Append(ReplaceTop(@, [frame EXCEPT !.pc = "return"]),
                                       Frame("cancel", new_token, "lock", None, FALSE))]
           ELSE /\ tokens' = [tokens EXCEPT ![new_token].state = "live"]
                /\ tasks' = [tasks EXCEPT ![task] = Pop(@)]
    /\ UNCHANGED <<cancel_called, cancel_returned, token_calls>>

\* create_linked_token() looks at the source: cancelled, it cancels the new
\* token before returning it; otherwise it returns it.
CreateLinkedTokenCheck(task) ==
    /\ At(task, "create_linked_token", "check")
    /\ LET frame == Top(tasks[task])
           new_token == frame.child[1]
       IN  IF is_cancellation_requested(tokens, frame.token)
           THEN /\ tokens' = store(tokens, new_token)
                /\ tasks' = [tasks EXCEPT ![task] =
                                Append(ReplaceTop(@, [frame EXCEPT !.pc = "return"]),
                                       Frame("cancel", new_token, "lock", None, FALSE))]
           ELSE /\ tokens' = [tokens EXCEPT ![new_token].state = "live"]
                /\ tasks' = [tasks EXCEPT ![task] = Pop(@)]
    /\ UNCHANGED <<cancel_called, cancel_returned, token_calls>>

\* create_linked_token() returns the new token it has cancelled.
CreateLinkedTokenReturn(task) ==
    /\ At(task, "create_linked_token", "return")
    /\ tokens' = [tokens EXCEPT ![Top(tasks[task]).child[1]].state = "live"]
    /\ tasks' = [tasks EXCEPT ![task] = Pop(@)]
    /\ UNCHANGED <<cancel_called, cancel_returned, token_calls>>

\* A task calls when_cancelled() on a token it holds: it returns at once if
\* the flag is set, and goes on to wait for the signal otherwise.
WhenCancelledCall(task, token) ==
    /\ token_calls < MaxTokenCalls
    /\ tasks[task] = <<>>
    /\ tokens[token].state = "live"
    /\ tasks' = [tasks EXCEPT ![task] =
                    IF is_cancellation_requested(tokens, token)
                    THEN <<>>
                    ELSE <<Frame("when_cancelled", token, "notified", None, FALSE)>>]
    /\ token_calls' = token_calls + 1
    /\ UNCHANGED <<tokens, cancel_called, cancel_returned>>

\* when_cancelled() awaits signal.notified(): the task becomes a waiter.
WhenCancelledPark(task) ==
    /\ At(task, "when_cancelled", "notified")
    /\ tasks' = [tasks EXCEPT ![task] = ReplaceTop(@, [Top(@) EXCEPT !.pc = "parked"])]
    /\ UNCHANGED <<tokens, cancel_called, cancel_returned, token_calls>>

\* The callers drop every handle of a token no call is working on.
Drop(token) ==
    /\ tokens[token].state = "live"
    /\ ~InUse(token)
    /\ tokens' = [tokens EXCEPT ![token].state = "dropped"]
    /\ UNCHANGED <<tasks, cancel_called, cancel_returned, token_calls>>

\* ------------------------------------------------- balance reservation engine
\* The BalanceManager the tests of balance_manager/tests drive, over the
\* VirtualBalanceHolder of balances/virtual_balance_holder.rs. Amounts and
\* balances are whole numbers of their smallest unit; the amounts of orders
\* and the balances of snapshots are multiples of Epsilon units.

\* The tolerance of unreserve: an amount below it counts as zero, an over-ask
\* of at most it is rounding.
Epsilon == 2

exchange_account_id_1 == "local_exchange_account_id0"
exchange_account_id_2 == "local_exchange_account_id1"
ExchangeAccountIds == {exchange_account_id_1, exchange_account_id_2}
CurrencyCodes == {"ETH", "BTC"}
OrderSide == {"Buy", "Sell"}
Prices == 1..MaxPrice
Amounts == {a * Epsilon : a \in 1..MaxAmount}

\* HashMap<CurrencyCode, Decimal>: the balances of one exchange snapshot.
BalancesByCurrencyCode ==
    UNION {[cs -> {b * Epsilon : b \in 0..MaxBalance}] :
              cs \in SUBSET CurrencyCodes \ {{}}}

\* BalanceRequest: the cell a diff is kept for.
BalanceRequest(exchange_account_id, currency_code) ==
    <<exchange_account_id, currency_code>>

\* ReserveParameters::new for the one currency pair ETH/BTC.
ReserveParameters(exchange_account_id, order_side, price, amount) ==
    [exchange_account_id |-> exchange_account_id, order_side |-> order_side,
     price |-> price, amount |-> amount]

\* The BalanceManager: the holder's two stores, the reservations by id and
\* the last reservation id handed out. ReservationId::default() is 0.
BalanceManager ==
    [balance_by_exchange_id |-> balance_by_exchange_id, balance_diff |-> balance_diff,
     reservations |-> reservations, reservation_id |-> reservation_id]

update_balances_resetting_account(bm, exchange_account_id, balances_by_currency_code) ==
    [bm EXCEPT
        !.balance_by_exchange_id =
            [a \in DOMAIN @ \cup {exchange_account_id} |->
                IF a = exchange_account_id THEN balances_by_currency_code ELSE @[a]],
        !.balance_diff =
            [x \in DOMAIN @ |-> IF x[1] = exchange_account_id THEN 0 ELSE @[x]]]

\* VirtualBalanceHolder::update_balances: the snapshot replaces the balances
\* of the account, and every diff of the account for a currency of the
\* snapshot is set to zero.
update_balances(bm, exchange_account_id, balances_by_currency_code) ==
    [bm EXCEPT
        !.balance_by_exchange_id =
            [a \in DOMAIN @ \cup {exchange_account_id} |->
                IF a = exchange_account_id THEN balances_by_currency_code ELSE @[a]],
        !.balance_diff =
            [x \in DOMAIN @ |->
                IF x[1] = exchange_account_id /\ x[2] \in DOMAIN balances_by_currency_code
                THEN 0
                ELSE @[x]]]

add_balance_overwriting(bm, balance_request, balance_to_add) ==
    [bm EXCEPT !.balance_diff =
        [x \in DOMAIN @ \cup {balance_request} |->
            IF x = balance_request THEN balance_to_add ELSE @[x]]]

\* VirtualBalanceHolder::add_balance
add_balance(bm, balance_request, balance_to_add) ==
    LET current_diff_value ==
            IF balance_request \in DOMAIN bm.balance_diff
            THEN bm.balance_diff[balance_request]
            ELSE 0
        new_value == current_diff_value + balance_to_add
    IN  [bm EXCEPT !.balance_diff =
            [x \in DOMAIN @ \cup {balance_request} |->
                IF x = balance_request THEN new_value ELSE @[x]]]

\* The currency a reservation is held in: the quote for Buy, the base for Sell.
ReservationCurrencyCode(order_side) ==
    IF order_side = "Buy" THEN "BTC" ELSE "ETH"

RequiredAmount_without_price(order_side, price, amount) ==
    amount

\* What an amount costs in the reservation currency.
RequiredAmount(order_side, price, amount) ==
    IF order_side = "Buy" THEN amount * price ELSE amount

RECURSIVE SumReserved(_, _, _, _)
SumReserved(bm, ids, exchange_account_id, currency_code) ==
    IF ids = {}
    THEN 0
    ELSE LET id == CHOOSE i \in ids : TRUE
             r == bm.reservations[id]
         IN  (IF /\ r.exchange_account_id = exchange_account_id
                 /\ ReservationCurrencyCode(r.order_side) = currency_code
              THEN RequiredAmount(r.order_side, r.price, r.unreserved_amount)
              ELSE 0)
             + SumReserved(bm, ids \ {id}, exchange_account_id, currency_code)

\* Available = actual + diff - live reservations; None without a snapshot.
get_balance(bm, exchange_account_id, currency_code) ==
    IF /\ exchange_account_id \in DOMAIN bm.balance_by_exchange_id
       /\ currency_code \in DOMAIN bm.balance_by_exchange_id[exchange_account_id]
    THEN Some(bm.balance_by_exchange_id[exchange_account_id][currency_code]
              + (IF BalanceRequest(exchange_account_id, currency_code) \in DOMAIN bm.balance_diff
                 THEN bm.balance_diff[BalanceRequest(exchange_account_id, currency_code)]
                 ELSE 0)
              - SumReserved(bm, DOMAIN bm.reservations, exchange_account_id, currency_code))
    ELSE None

get_balance_by_reserve_parameters(bm, reserve_parameters) ==
    get_balance(bm, reserve_parameters.exchange_account_id,
                ReservationCurrencyCode(reserve_parameters.order_side))

get_reservation(bm, id) ==
    IF id \in DOMAIN bm.reservations THEN Some(bm.reservations[id]) ELSE None

\* A new reservation: nothing unreserved or approved yet.
Reservation(reserve_parameters) ==
    [exchange_account_id |-> reserve_parameters.exchange_account_id,
     order_side |-> reserve_parameters.order_side,
     price |-> reserve_parameters.price,
     amount |-> reserve_parameters.amount,
     not_approved_amount |-> reserve_parameters.amount,
     unreserved_amount |-> reserve_parameters.amount,
     approved_parts |-> <<>>]

\* The BalanceManager after a call, the bool the call returned and the
\* reservation id it left in its out-parameter.
Reserved(bm, result, id) ==
    [bm |-> bm, result |-> result, reservation_id |-> id]

can_reserve_below(bm, reserve_parameters) ==
    LET balance == get_balance_by_reserve_parameters(bm, reserve_parameters)
    IN  /\ balance # None
        /\ RequiredAmount(reserve_parameters.order_side, reserve_parameters.price,
                          reserve_parameters.amount) < balance[1]

\* can_reserve: whether the available balance covers what the reservation
\* requires; it takes the manager by shared reference.
can_reserve(bm, reserve_parameters) ==
    LET balance == get_balance_by_reserve_parameters(bm, reserve_parameters)
    IN  /\ balance # None
        /\ RequiredAmount(reserve_parameters.order_side, reserve_parameters.price,
                          reserve_parameters.amount) <= balance[1]

try_reserve_storing(bm, reserve_parameters) ==
    LET id == bm.reservation_id + 1
    IN  Reserved([bm EXCEPT
                     !.reservation_id = id,
                     !.reservations =
                         [i \in DOMAIN @ \cup {id} |->
                             IF i = id THEN Reservation(reserve_parameters) ELSE @[i]]],
                 can_reserve(bm, reserve_parameters), id)

\* try_reserve: with enough available balance the reservation is stored
\* under the next id; otherwise nothing changes and the id stays the default.
try_reserve(bm, reserve_parameters) ==
    IF can_reserve(bm, reserve_parameters)
    THEN try_reserve_storing(bm, reserve_parameters)
    ELSE Reserved(bm, FALSE, 0)

RECURSIVE try_reserve_multiple(_, _, _)
\* try_reserve of each of the parameters in turn on a copy of the manager,
\* up to the first that fails: the copy, whether all succeeded, and the ids
\* handed out.
try_reserve_multiple(bm, reserve_parameters, ids) ==
    IF reserve_parameters = <<>>
    THEN Reserved(bm, TRUE, ids)
    ELSE LET reserved == try_reserve(bm, Head(reserve_parameters))
         IN  IF reserved.result
             THEN try_reserve_multiple(reserved.bm, Tail(reserve_parameters),
                                       Append(ids, reserved.reservation_id))
             ELSE Reserved(bm, FALSE, ids)

commit_partial(bm, attempt, count) ==
    Reserved(attempt.bm, attempt.result,
             [i \in 1..count |-> IF i <= Len(attempt.reservation_id)
                                 THEN attempt.reservation_id[i] ELSE 0])

\* The copy replaces the manager only if every reservation succeeded;
\* otherwise it is thrown away and the ids stay the default.
commit(bm, attempt, count) ==
    IF attempt.result
    THEN attempt
    ELSE Reserved(bm, FALSE, [i \in 1..count |-> 0])

try_reserve_pair(bm, reserve_parameters_1, reserve_parameters_2) ==
    commit(bm,
           try_reserve_multiple(bm, <<reserve_parameters_1, reserve_parameters_2>>, <<>>),
           2)

try_reserve_three(bm, reserve_parameters_1, reserve_parameters_2, reserve_parameters_3) ==
    commit(bm,
           try_reserve_multiple(bm, <<reserve_parameters_1, reserve_parameters_2,
                                      reserve_parameters_3>>, <<>>),
           3)

\* The account id a reservation is left with when its exchange is gone.
unknown_exchange_account_id == "unknown_id0"

\* The result of try_update_reservation.
Updated(bm, result) ==
    [bm |-> bm, result |-> result]

set_price(bm, id, new_price) ==
    [bm EXCEPT !.reservations[id].price = new_price]

try_update_reservation_repricing(bm, id, new_price) ==
    IF id \in DOMAIN bm.reservations
    THEN Updated(set_price(bm, id, new_price), FALSE)
    ELSE Updated(bm, FALSE)

try_update_reservation_keeping_price(bm, id, new_price) ==
    Updated(bm, id \in DOMAIN bm.reservations)

\* A reservation moves to a new price if the balance covers what the new
\* price requires beyond the old one; a price requiring less always fits.
try_update_reservation(bm, id, new_price) ==
    IF id \notin DOMAIN bm.reservations
    THEN Updated(bm, FALSE)
    ELSE LET reservation == bm.reservations[id]
             old_required == RequiredAmount(reservation.order_side, reservation.price,
                                            reservation.unreserved_amount)
             new_required == RequiredAmount(reservation.order_side, new_price,
                                            reservation.unreserved_amount)
             delta == new_required - old_required
             balance == get_balance(bm, reservation.exchange_account_id,
                                    ReservationCurrencyCode(reservation.order_side))
         IN  IF delta > 0 /\ (balance = None \/ balance[1] < delta)
             THEN Updated(bm, FALSE)
             ELSE Updated(set_price(bm, id, new_price), TRUE)

\* The result of unreserve: Ok, or Err with its message.
Unreserved(bm, result, error) ==
    [bm |-> bm, result |-> result, error |-> error]

is_zero_amount_exact(amount) ==
    amount = 0

\* An amount below the tolerance counts as zero.
is_zero_amount(amount) ==
    amount < Epsilon

is_known_exchange_always(exchange_account_id) ==
    TRUE

is_known_exchange(exchange_account_id) ==
    exchange_account_id \in ExchangeAccountIds

amount_to_unreserve_unclamped(reservation, amount) ==
    amount

\* An over-ask within the tolerance releases what is left.
amount_to_unreserve(reservation, amount) ==
    IF amount > reservation.unreserved_amount
    THEN reservation.unreserved_amount
    ELSE amount

unreserve_not_approved_part_keeping(bm, id, amount) ==
    [bm EXCEPT !.reservations[id].unreserved_amount = @ - amount,
               !.reservations[id].not_approved_amount = @ - amount]

\* The amount leaves the reservation, and a reservation with nothing left
\* leaves the manager.
unreserve_not_approved_part(bm, id, amount) ==
    IF bm.reservations[id].unreserved_amount = amount
    THEN [bm EXCEPT !.reservations =
                        [i \in DOMAIN bm.reservations \ {id} |-> bm.reservations[i]]]
    ELSE [bm EXCEPT !.reservations[id].unreserved_amount = @ - amount,
                    !.reservations[id].not_approved_amount = @ - amount]

\* The way unreserve takes through its checks.
unreserve_path(bm, id, amount) ==
    IF is_zero_amount(amount) THEN "zero"
    ELSE IF id \notin DOMAIN bm.reservations THEN "not found"
    ELSE IF ~is_known_exchange(bm.reservations[id].exchange_account_id)
         THEN "unknown exchange"
    ELSE IF amount > bm.reservations[id].unreserved_amount + Epsilon THEN "rejected"
    ELSE IF amount > bm.reservations[id].unreserved_amount THEN "clamped"
    ELSE IF amount = bm.reservations[id].unreserved_amount THEN "closed"
    ELSE "partial"

unreserve(bm, id, amount) ==
    LET path == unreserve_path(bm, id, amount)
    IN  IF path = "zero" THEN Unreserved(bm, TRUE, "")
        ELSE IF path = "not found"
             THEN Unreserved(bm, FALSE, "Can't find reservation_id=")
        ELSE IF path = "unknown exchange" THEN Unreserved(bm, TRUE, "")
        ELSE IF path = "rejected"
             THEN Unreserved(bm, FALSE, "Can't unreserve more than reserved")
        ELSE Unreserved(unreserve_not_approved_part(
                            bm, id, amount_to_unreserve(bm.reservations[id], amount)),
                        TRUE, "")

\* What the last call on the balance manager was: the method, whether it
\* succeeded, the way it took through the method, and the available balance
\* it was about before and after it.
BalanceCalled(op, result, path, before, after) ==
    [op |-> op, result |-> result, path |-> path, before |-> before, after |-> after]

SetBalanceManager(bm) ==
    /\ balance_by_exchange_id' = bm.balance_by_exchange_id
    /\ balance_diff' = bm.balance_diff
    /\ reservations' = bm.reservations
    /\ reservation_id' = bm.reservation_id

BalanceInit ==
    /\ balance_by_exchange_id = <<>>
    /\ balance_diff = <<>>
    /\ reservations = <<>>
    /\ reservation_id = 0
    /\ balance_calls = 0
    /\ balance_last = BalanceCalled("new", TRUE, "", None, None)

\* BalanceManager::update_exchange_balance with a snapshot of an account.
UpdateExchangeBalance(exchange_account_id, balances_by_currency_code) ==
    /\ balance_calls < MaxBalanceCalls
    /\ SetBalanceManager(update_balances(BalanceManager, exchange_account_id,
                                         balances_by_currency_code))
    /\ balance_calls' = balance_calls + 1
    /\ balance_last' = BalanceCalled("update_exchange_balance", TRUE,
                                     exchange_account_id, None, None)

\* A fill or transfer moves a balance since the last snapshot.
AddBalance(balance_request, balance_to_add) ==
    /\ balance_calls < MaxBalanceCalls
    /\ SetBalanceManager(add_balance(BalanceManager, balance_request, balance_to_add))
    /\ balance_calls' = balance_calls + 1
    /\ balance_last' = BalanceCalled("add_balance", TRUE, "", None, None)

\* A strategy calls try_reserve.
TryReserve(reserve_parameters) ==
    /\ balance_calls < MaxBalanceCalls
    /\ LET reserved == try_reserve(BalanceManager, reserve_parameters)
       IN  /\ SetBalanceManager(reserved.bm)
           /\ balance_last' =
                 BalanceCalled("try_reserve", reserved.result, "",
                               get_balance_by_reserve_parameters(BalanceManager,
                                                                 reserve_parameters),
                               get_balance_by_reserve_parameters(reserved.bm,
                                                                 reserve_parameters))
    /\ balance_calls' = balance_calls + 1

\* A strategy calls can_reserve.
CanReserve(reserve_parameters) ==
    /\ balance_calls < MaxBalanceCalls
    /\ balance_last' =
          BalanceCalled("can_reserve", can_reserve(BalanceManager, reserve_parameters), "",
                        get_balance_by_reserve_parameters(BalanceManager,
                                                          reserve_parameters),
                        get_balance_by_reserve_parameters(BalanceManager,
                                                          reserve_parameters))
    /\ balance_calls' = balance_calls + 1
    /\ UNCHANGED <<balance_by_exchange_id, balance_diff, reservations, reservation_id>>

\* The strategy may still call the manager.
MayCall ==
    balance_calls < MaxBalanceCalls

\* The number of reservations the model lets the manager hold.
Room(count) ==
    Cardinality(DOMAIN reservations) + count <= MaxReservations

\* A strategy calls try_reserve_pair.
TryReservePair(reserve_parameters_1, reserve_parameters_2) ==
    /\ balance_calls < MaxBalanceCalls
    /\ Room(2)
    /\ LET attempt == try_reserve_multiple(BalanceManager,
                           <<reserve_parameters_1, reserve_parameters_2>>, <<>>)
           reserved == try_reserve_pair(BalanceManager, reserve_parameters_1,
                                        reserve_parameters_2)
       IN  /\ SetBalanceManager(reserved.bm)
           /\ balance_last' =
                 BalanceCalled("try_reserve_pair", reserved.result,
                               IF Len(attempt.reservation_id) = 0 THEN "first leg failed"
                               ELSE IF Len(attempt.reservation_id) = 1 THEN "second leg failed"
                               ELSE "reserved",
                               None, None)
    /\ balance_calls' = balance_calls + 1

\* A strategy calls try_reserve_three.
TryReserveThree(reserve_parameters_1, reserve_parameters_2, reserve_parameters_3) ==
    /\ balance_calls < MaxBalanceCalls
    /\ Room(3)
    /\ LET attempt == try_reserve_multiple(BalanceManager,
                           <<reserve_parameters_1, reserve_parameters_2,
                             reserve_parameters_3>>, <<>>)
           reserved == try_reserve_three(BalanceManager, reserve_parameters_1,
                                         reserve_parameters_2, reserve_parameters_3)
       IN  /\ SetBalanceManager(reserved.bm)
           /\ balance_last' =
                 BalanceCalled("try_reserve_three", reserved.result,
                               IF Len(attempt.reservation_id) = 0 THEN "first leg failed"
                               ELSE IF Len(attempt.reservation_id) = 1 THEN "second leg failed"
                               ELSE IF Len(attempt.reservation_id) = 2 THEN "third leg failed"
                               ELSE "reserved",
                               None, None)
    /\ balance_calls' = balance_calls + 1

\* The available balance a reservation is taken from, None without it.
ReservationBalance(bm, id) ==
    IF id \in DOMAIN bm.reservations
    THEN get_balance(bm, bm.reservations[id].exchange_account_id,
                     ReservationCurrencyCode(bm.reservations[id].order_side))
    ELSE None

\* A strategy calls try_update_reservation.
TryUpdateReservation(id, new_price) ==
    /\ balance_calls < MaxBalanceCalls
    /\ LET updated == try_update_reservation(BalanceManager, id, new_price)
       IN  /\ SetBalanceManager(updated.bm)
           /\ balance_last' =
                 BalanceCalled("try_update_reservation", updated.result,
                               IF id \notin DOMAIN reservations THEN "not found"
                               ELSE IF updated.result THEN "updated" ELSE "not enough",
                               ReservationBalance(BalanceManager, id),
                               ReservationBalance(updated.bm, id))
    /\ balance_calls' = balance_calls + 1

\* A strategy calls unreserve.
Unreserve(id, amount) ==
    /\ balance_calls < MaxBalanceCalls
    /\ LET unreserved == unreserve(BalanceManager, id, amount)
       IN  /\ SetBalanceManager(unreserved.bm)
           /\ balance_last' =
                 BalanceCalled("unreserve", unreserved.result,
                               unreserve_path(BalanceManager, id, amount),
                               ReservationBalance(BalanceManager, id),
                               IF id \in DOMAIN reservations
                               THEN get_balance(unreserved.bm,
                                                reservations[id].exchange_account_id,
                                                ReservationCurrencyCode(
                                                    reservations[id].order_side))
                               ELSE None)
    /\ balance_calls' = balance_calls + 1

\* The exchange of a reservation goes away: the reservation is left with an
\* account id that no exchange has.
SetUnknownExchangeAccountId(id) ==
    /\ id \in DOMAIN reservations
    /\ is_known_exchange(reservations[id].exchange_account_id)
    /\ reservations' =
          [reservations EXCEPT ![id].exchange_account_id = unknown_exchange_account_id]
    /\ balance_last' = BalanceCalled("get_mut_reservation", TRUE, "", None, None)
    /\ UNCHANGED <<balance_by_exchange_id, balance_diff, reservation_id, balance_calls>>

\* What the last operation was: the call, the status its order had before it,
\* its Result, and for create_order the OrderRef it returned.
Called(op, client_order_id, exchange_order_id, source_type, pre_status, result, returned) ==
    [op |-> op, client_order_id |-> client_order_id,
     exchange_order_id |-> exchange_order_id, source_type |-> source_type,
     pre_status |-> pre_status, result |-> result, returned |-> returned]

\* The status the order of client_order_id has in the pool, before a call.
StatusOf(client_order_id) ==
    IF client_order_id \in DOMAIN orders THEN orders[client_order_id].status ELSE "NoOrder"

SetPool(st) ==
    /\ orders' = st.orders
    /\ by_exchange_id' = st.by_exchange_id
    /\ not_finished' = st.not_finished
    /\ events' = st.events

\* ----------------------------------------------------------------- launcher
\* What before_engine_context_init does, in order.
BeforeEngineContextInitSteps ==
    <<"init_infrastructure", "init_lifetime_manager", "load_settings",
      "create_timeout_manager", "create_exchanges", "update_balances_for_exchanges",
      "setup_balance_manager", "EngineContext::new">>

\* What run_services does, in order.
RunServicesSteps ==
    <<"InternalEventsLoop::new", "create_statistic_event_handler",
      "CoreApi::create_and_start", "internal_events_loop start",
      "build_strategy", "create_disposition_executor_service", "TradingEngine::new">>

InitSettings == {"Directly", "Load"}

\* Result<T> of the launcher
LaunchOk(value) == [tag |-> Ok, value |-> value]
LaunchErr(message) == [tag |-> Err, value |-> message]

\* AppLifetimeManager::spawn_graceful_shutdown: the first reason starts the
\* shutdown and stays, a later call is a no-op.
spawn_graceful_shutdown(manager, reason) ==
    IF manager = Some(None) THEN Some(Some(reason)) ELSE manager

\* unwrap_or_handle_panic: an Err outcome (a caught panic) asks the lifetime
\* manager it was given, if it was given one, for a graceful shutdown and
\* becomes an Err of the message; an Ok outcome is passed on. given says
\* whether the lifetime_manager argument is Some.
unwrap_or_handle_panic(action_outcome, message_template, given, manager) ==
    IF action_outcome.tag = Err
    THEN [result |-> LaunchErr(message_template),
          lifetime_manager |->
              IF given
              THEN spawn_graceful_shutdown(manager, "Panic during TradingEngine creation")
              ELSE manager]
    ELSE [result |-> action_outcome, lifetime_manager |-> manager]

LaunchInit ==
    /\ launch_stage = "not started"
    /\ launch_step = 1
    /\ init_user_settings = "Directly"
    /\ lifetime_manager = None
    /\ ctrl_c = "not spawned"
    /\ launch_result = None
    /\ launch_panic = None

\* launch_trading_engine is called.
LaunchTradingEngine(settings) ==
    /\ launch_stage = "not started"
    /\ launch_stage' = "before_engine_context_init"
    /\ init_user_settings' = settings
    /\ UNCHANGED <<launch_step, lifetime_manager, ctrl_c, launch_result, launch_panic>>

\* A step of before_engine_context_init completes; after the last one
\* launch_trading_engine has the engine context and goes on.
BeforeEngineContextInitStep ==
    /\ launch_stage = "before_engine_context_init"
    /\ lifetime_manager' =
          IF BeforeEngineContextInitSteps[launch_step] = "init_lifetime_manager"
          THEN Some(None)
          ELSE lifetime_manager
    /\ IF launch_step = Len(BeforeEngineContextInitSteps)
       THEN launch_stage' = "Start Ctrl-C handler" /\ launch_step' = 1
       ELSE launch_stage' = launch_stage /\ launch_step' = launch_step + 1
    /\ UNCHANGED <<init_user_settings, ctrl_c, launch_result, launch_panic>>

\* load_settings_or_wait gives up waiting: before_engine_context_init returns
\* Ok(None), and so does launch_trading_engine.
LoadSettingsStopped ==
    /\ launch_stage = "before_engine_context_init"
    /\ BeforeEngineContextInitSteps[launch_step] = "load_settings"
    /\ init_user_settings = "Load"
    /\ launch_stage' = "returned"
    /\ launch_result' = Some(LaunchOk(None))
    /\ UNCHANGED <<launch_step, init_user_settings, lifetime_manager, ctrl_c, launch_panic>>

\* A step of before_engine_context_init panics: catch_unwind gives the Err
\* outcome to unwrap_or_handle_panic with no lifetime manager, and the ?
\* returns its Err.
BeforeEngineContextInitPanic ==
    /\ launch_stage = "before_engine_context_init"
    /\ LET handled ==
               unwrap_or_handle_panic(
                   LaunchErr("panic"),
                   "Panic happened during EngineContext initialization",
                   FALSE, lifetime_manager)
       IN  /\ launch_result' = Some(handled.result)
           /\ lifetime_manager' = handled.lifetime_manager
    /\ launch_panic' = Some(<<launch_stage, launch_step>>)
    /\ launch_stage' = "returned"
    /\ UNCHANGED <<launch_step, init_user_settings, ctrl_c>>

\* The Ctrl-C handler is spawned.
StartCtrlCHandler ==
    /\ launch_stage = "Start Ctrl-C handler"
    /\ ctrl_c' = "listening"
    /\ launch_stage' = "run_services"
    /\ UNCHANGED <<launch_step, init_user_settings, lifetime_manager, launch_result,
                   launch_panic>>

\* Ctrl-C arrives: its handler asks for a graceful shutdown.
CtrlC ==
    /\ ctrl_c = "listening"
    /\ ctrl_c' = "received"
    /\ lifetime_manager' =
          spawn_graceful_shutdown(lifetime_manager, "Ctrl-C signal was received")
    /\ UNCHANGED <<launch_stage, launch_step, init_user_settings, launch_result,
                   launch_panic>>

\* A step of run_services completes; after the last one
\* launch_trading_engine returns the trading engine.
RunServicesStep ==
    /\ launch_stage = "run_services"
    /\ IF launch_step = Len(RunServicesSteps)
       THEN LET handled ==
                    unwrap_or_handle_panic(
                        LaunchOk(Some("TradingEngine")),
                        "Panic happened during TradingEngine creation",
                        TRUE, lifetime_manager)
            IN  /\ launch_result' = Some(handled.result)
                /\ lifetime_manager' = handled.lifetime_manager
                /\ launch_stage' = "returned"
                /\ launch_step' = launch_step
       ELSE /\ launch_step' = launch_step + 1
            /\ UNCHANGED <<launch_stage, launch_result, lifetime_manager>>
    /\ UNCHANGED <<init_user_settings, ctrl_c, launch_panic>>

\* A step of run_services panics: catch_unwind gives the Err outcome to
\* unwrap_or_handle_panic with the lifetime manager of the engine context.
RunServicesPanic ==
    /\ launch_stage = "run_services"
    /\ LET handled ==
               unwrap_or_handle_panic(
                   LaunchErr("panic"),
                   "Panic happened during TradingEngine creation",
                   TRUE, lifetime_manager)
       IN  /\ launch_result' = Some(handled.result)
           /\ lifetime_manager' = handled.lifetime_manager
    /\ launch_panic' = Some(<<launch_stage, launch_step>>)
    /\ launch_stage' = "returned"
    /\ UNCHANGED <<launch_step, init_user_settings, ctrl_c>>

\* ------------------------------------------------------------- transactions
TransactionStatus ==
    {"New", "Hedging", "Trailing", "Timeout", "StopLoss", "Finished"}

TransactionIds == 1..MaxTransactions

\* TransactionSnapshot::new
TransactionSnapshot(transaction_id, side, status) ==
    [revision |-> 1, transaction_id |-> transaction_id, side |-> side,
     status |-> status, hedged |-> None, profit_loss_pct |-> None, trades |-> <<>>]

increment_revision_twice(transaction) ==
    [transaction EXCEPT !.revision = @ + 2]

\* TransactionSnapshot::increment_revision
increment_revision(transaction) ==
    [transaction EXCEPT !.revision = @ + 1]

\* transaction_service::save: the status is set and the revision goes up,
\* then the snapshot goes to the event recorder, whose result is the result
\* of save.
save(transaction, status, recorder_result) ==
    LET saved == increment_revision([transaction EXCEPT !.status = status])
    IN  [transaction |-> saved, handed |-> Some(saved), result |-> recorder_result]

\* What the last call on a transaction was.
TransactionCalled(op, transaction_id, status, result) ==
    [op |-> op, transaction_id |-> transaction_id, status |-> status, result |-> result]

TransactionInit ==
    /\ transactions = <<>>
    /\ saves = <<>>
    /\ event_recorder = None
    /\ transaction_calls = 0
    /\ transaction_last = TransactionCalled("none", 0, "New", Ok)

\* A strategy makes a transaction.
NewTransaction(side, status) ==
    /\ transaction_calls < MaxTransactionCalls
    /\ Len(transactions) < MaxTransactions
    /\ LET transaction_id == Len(transactions) + 1
       IN  /\ transactions' =
                 Append(transactions, TransactionSnapshot(transaction_id, side, status))
           /\ saves' = Append(saves, 0)
           /\ transaction_last' = TransactionCalled("new", transaction_id, status, Ok)
    /\ transaction_calls' = transaction_calls + 1
    /\ UNCHANGED event_recorder

\* A strategy calls transaction_service::save on a transaction.
SaveTransaction(transaction_id, status, recorder_result) ==
    /\ transaction_calls < MaxTransactionCalls
    /\ transaction_id \in DOMAIN transactions
    /\ LET saved == save(transactions[transaction_id], status, recorder_result)
       IN  /\ transactions' = [transactions EXCEPT ![transaction_id] = saved.transaction]
           /\ event_recorder' = saved.handed
           /\ transaction_last' =
                 TransactionCalled("save", transaction_id, status, saved.result)
    /\ saves' = [saves EXCEPT ![transaction_id] = @ + 1]
    /\ transaction_calls' = transaction_calls + 1

Init ==
    /\ orders = <<>>
    /\ by_exchange_id = <<>>
    /\ not_finished = {}
    /\ events = [c \in ClientOrderIds |-> <<>>]
    /\ in_flight = {}
    /\ calls = 0
    /\ last = Called("new", EmptyId, EmptyId, None, "NoOrder", Ok, None)
    /\ TokenInit
    /\ BalanceInit
    /\ LaunchInit
    /\ TransactionInit

\* create_order up to its suspension in create_order_core: the order is put
\* into the pool under a fresh client order id.
CreateOrderSubmit(client_order_id) ==
    /\ calls < MaxCalls
    /\ client_order_id \notin DOMAIN orders
    /\ SetPool(add_simple_initial(Pool, client_order_id))
    /\ in_flight' = in_flight \cup {client_order_id}
    /\ calls' = calls + 1
    /\ last' = Called("create_order", client_order_id, EmptyId, None, "NoOrder", Ok, None)

\* create_order from the answer of create_order_core to its return.
CreateOrderResponse(client_order_id, response) ==
    /\ calls < MaxCalls
    /\ client_order_id \in in_flight
    /\ LET base == create_order_base(Pool, client_order_id, response)
           returned == create_order_return(base, response)
       IN  /\ SetPool(base.st)
           /\ last' = Called(IF response = None THEN "create_order_cancelled"
                             ELSE "create_order_return",
                             client_order_id,
                             IF response = None THEN EmptyId ELSE response[1].outcome.id,
                             None,
                             StatusOf(client_order_id),
                             IF returned.ok THEN Ok ELSE Err,
                             returned.order)
    /\ in_flight' = in_flight \ {client_order_id}
    /\ calls' = calls + 1

\* A creation-success event (a notification or a fallback, first or repeated)
\* handed to handle_create_order_succeeded.
CreateOrderSucceededEvent(client_order_id, exchange_order_id, source_type) ==
    /\ calls < MaxCalls
    /\ LET handled == handle_create_order_succeeded(Pool, client_order_id,
                                                    exchange_order_id, source_type)
       IN  /\ SetPool(handled.st)
           /\ last' = Called("create_order_succeeded", client_order_id, exchange_order_id,
                             Some(source_type), StatusOf(client_order_id),
                             handled.result, None)
    /\ calls' = calls + 1
    /\ UNCHANGED in_flight

\* A creation-failure event handed to handle_create_order_failed.
CreateOrderFailedEvent(client_order_id, exchange_error, source_type) ==
    /\ calls < MaxCalls
    /\ LET handled == handle_create_order_failed(Pool, client_order_id,
                                                 exchange_error, source_type)
       IN  /\ SetPool(handled.st)
           /\ last' = Called("create_order_failed", client_order_id, EmptyId,
                             None, StatusOf(client_order_id),
                             handled.result, None)
    /\ calls' = calls + 1
    /\ UNCHANGED in_flight

\* The transitions of the order state machine outside creation handling
\* (cancellation and fills): the edges of the transition diagram, with the
\* event each raises.
OtherTransitions ==
    {<<"Creating", "Canceling", "">>,
     <<"Created", "Canceling", "">>,
     <<"Canceling", "Canceled", "CancelOrderSucceeded">>,
     <<"Canceling", "FailedToCancel", "CancelOrderFailed">>,
     <<"Created", "Completed", "OrderCompleted">>,
     <<"Canceling", "Completed", "OrderCompleted">>}

OrderTransition(client_order_id, edge) ==
    /\ calls < MaxCalls
    /\ client_order_id \in DOMAIN orders
    /\ orders[client_order_id].status = edge[1]
    /\ LET moved == [Pool EXCEPT !.orders[client_order_id] = set_status(@, edge[2])]
       IN  SetPool(IF edge[3] = "" THEN moved
                   ELSE add_event_on_order_change(moved, client_order_id, edge[3]))
    /\ calls' = calls + 1
    /\ last' = Called("order_transition", client_order_id, EmptyId, None, edge[1], Ok, None)
    /\ UNCHANGED in_flight

\* Option<CreateOrderResult>: what create_order_core answers.
CreateOrderResponses ==
    {None} \cup
    {Some([outcome |-> o, source_type |-> s]) :
        o \in {Success(e) : e \in ExchangeOrderIds} \cup {Error(x) : x \in ExchangeError},
        s \in EventSourceType}

Next ==
    \/ \E c \in ClientOrderIds :
            CreateOrderSubmit(c) /\ UNCHANGED <<token_vars, balance_vars, launch_vars, transaction_vars>>
    \/ \E c \in ClientOrderIds, r \in CreateOrderResponses :
            CreateOrderResponse(c, r) /\ UNCHANGED <<token_vars, balance_vars, launch_vars, transaction_vars>>
    \/ \E c \in ClientOrderIds \cup {EmptyId}, e \in ExchangeOrderIds \cup {EmptyId},
          s \in EventSourceType :
            CreateOrderSucceededEvent(c, e, s) /\ UNCHANGED <<token_vars, balance_vars, launch_vars, transaction_vars>>
    \/ \E c \in ClientOrderIds \cup {EmptyId}, x \in ExchangeError, s \in EventSourceType :
            CreateOrderFailedEvent(c, x, s) /\ UNCHANGED <<token_vars, balance_vars, launch_vars, transaction_vars>>
    \/ \E c \in ClientOrderIds, edge \in OtherTransitions :
            OrderTransition(c, edge) /\ UNCHANGED <<token_vars, balance_vars, launch_vars, transaction_vars>>

all_vars == <<vars, token_vars, balance_vars, launch_vars, transaction_vars>>

Spec == Init /\ [][Next]_all_vars

\* The tasks using the cancellation tokens, the orders left alone.
NextToken ==
    \/ \E task \in Tasks, token \in TokenIds : CancelCall(task, token) /\ UNCHANGED <<vars, balance_vars, launch_vars, transaction_vars>>
    \/ \E task \in Tasks : CancelLock(task) /\ UNCHANGED <<vars, balance_vars, launch_vars, transaction_vars>>
    \/ \E task \in Tasks : CancelHandler(task) /\ UNCHANGED <<vars, balance_vars, launch_vars, transaction_vars>>
    \/ \E task \in Tasks : CancelNotify(task) /\ UNCHANGED <<vars, balance_vars, launch_vars, transaction_vars>>
    \/ \E task \in Tasks, token \in TokenIds : CreateLinkedTokenCall(task, token) /\ UNCHANGED <<vars, balance_vars, launch_vars, transaction_vars>>
    \/ \E task \in Tasks : CreateLinkedTokenRegister(task) /\ UNCHANGED <<vars, balance_vars, launch_vars, transaction_vars>>
    \/ \E task \in Tasks : CreateLinkedTokenCheck(task) /\ UNCHANGED <<vars, balance_vars, launch_vars, transaction_vars>>
    \/ \E task \in Tasks : CreateLinkedTokenReturn(task) /\ UNCHANGED <<vars, balance_vars, launch_vars, transaction_vars>>
    \/ \E task \in Tasks, token \in TokenIds : WhenCancelledCall(task, token) /\ UNCHANGED <<vars, balance_vars, launch_vars, transaction_vars>>
    \/ \E task \in Tasks : WhenCancelledPark(task) /\ UNCHANGED <<vars, balance_vars, launch_vars, transaction_vars>>
    \/ \E token \in TokenIds : Drop(token) /\ UNCHANGED <<vars, balance_vars, launch_vars, transaction_vars>>

SpecToken == Init /\ [][NextToken]_all_vars

\* The strategy of the first exchange account calling the balance manager, the
\* orders and tokens left alone.
NextBalance ==
    \/ \E b \in BalancesByCurrencyCode :
            UpdateExchangeBalance(exchange_account_id_1, b) /\ UNCHANGED <<vars, token_vars, launch_vars, transaction_vars>>
    \/ \E c \in CurrencyCodes, d \in {-1, 1} :
            AddBalance(BalanceRequest(exchange_account_id_1, c), d)
                /\ UNCHANGED <<vars, token_vars, launch_vars, transaction_vars>>
    \/ \E side \in OrderSide, price \in Prices, amount \in Amounts :
            TryReserve(ReserveParameters(exchange_account_id_1, side, price, amount))
                /\ UNCHANGED <<vars, token_vars, launch_vars, transaction_vars>>
    \/ \E side \in OrderSide, price \in Prices, amount \in Amounts :
            CanReserve(ReserveParameters(exchange_account_id_1, side, price, amount))
                /\ UNCHANGED <<vars, token_vars, launch_vars, transaction_vars>>

SpecBalance == Init /\ [][NextBalance]_all_vars

\* The legs of a multiple reservation: one account, one price.
Legs(price) ==
    {ReserveParameters(exchange_account_id_1, side, price, amount) :
        side \in OrderSide, amount \in {a * Epsilon : a \in 1..MaxLegAmount}}

\* The strategy of the first exchange account reserving several legs at once.
NextReserveMany ==
    \/ \E b \in BalancesByCurrencyCode :
            UpdateExchangeBalance(exchange_account_id_1, b) /\ UNCHANGED <<vars, token_vars, launch_vars, transaction_vars>>
    \/ \E price \in Prices : \E p1 \in Legs(price) :
            (Room(1) /\ TryReserve(p1)) /\ UNCHANGED <<vars, token_vars, launch_vars, transaction_vars>>
    \/ \E price \in Prices : \E p1 \in Legs(price), p2 \in Legs(price) :
            TryReservePair(p1, p2) /\ UNCHANGED <<vars, token_vars, launch_vars, transaction_vars>>
    \/ \E price \in Prices : \E p1 \in Legs(price), p2 \in Legs(price), p3 \in Legs(price) :
            TryReserveThree(p1, p2, p3) /\ UNCHANGED <<vars, token_vars, launch_vars, transaction_vars>>

SpecReserveMany == Init /\ [][NextReserveMany]_all_vars

\* The amounts a strategy asks unreserve for: zero, below the tolerance, up
\* to the largest reservation, and beyond it within and past the tolerance.
UnreserveAmounts == 0..(MaxAmount * Epsilon + Epsilon + 1)

\* The strategy of the first exchange account keeping its reservations.
NextReservation ==
    \/ \E b \in BalancesByCurrencyCode :
            UpdateExchangeBalance(exchange_account_id_1, b) /\ UNCHANGED <<vars, token_vars, launch_vars, transaction_vars>>
    \/ \E side \in OrderSide, price \in Prices, amount \in Amounts :
            TryReserve(ReserveParameters(exchange_account_id_1, side, price, amount))
                /\ UNCHANGED <<vars, token_vars, launch_vars, transaction_vars>>
    \/ \E id \in 1..reservation_id, new_price \in Prices :
            TryUpdateReservation(id, new_price) /\ UNCHANGED <<vars, token_vars, launch_vars, transaction_vars>>
    \/ \E id \in 1..reservation_id, amount \in UnreserveAmounts :
            Unreserve(id, amount) /\ UNCHANGED <<vars, token_vars, launch_vars, transaction_vars>>
    \/ \E id \in 1..reservation_id :
            SetUnknownExchangeAccountId(id) /\ UNCHANGED <<vars, token_vars, launch_vars, transaction_vars>>

SpecReservation == Init /\ [][NextReservation]_all_vars

\* The balance holder of both exchange accounts: snapshots come in and
\* diffs are added.
NextHolder ==
    \/ \E a \in ExchangeAccountIds, b \in BalancesByCurrencyCode :
            UpdateExchangeBalance(a, b) /\ UNCHANGED <<vars, token_vars, launch_vars, transaction_vars>>
    \/ \E a \in ExchangeAccountIds, c \in CurrencyCodes, d \in {-1, 1} :
            AddBalance(BalanceRequest(a, c), d) /\ UNCHANGED <<vars, token_vars, launch_vars, transaction_vars>>

SpecHolder == Init /\ [][NextHolder]_all_vars

\* The launch of the trading engine, with Ctrl-C arriving when it will.
NextLaunch ==
    \/ \E settings \in InitSettings :
            LaunchTradingEngine(settings) /\ UNCHANGED <<vars, token_vars, balance_vars, transaction_vars>>
    \/ BeforeEngineContextInitStep /\ UNCHANGED <<vars, token_vars, balance_vars, transaction_vars>>
    \/ LoadSettingsStopped /\ UNCHANGED <<vars, token_vars, balance_vars, transaction_vars>>
    \/ BeforeEngineContextInitPanic /\ UNCHANGED <<vars, token_vars, balance_vars, transaction_vars>>
    \/ StartCtrlCHandler /\ UNCHANGED <<vars, token_vars, balance_vars, transaction_vars>>
    \/ CtrlC /\ UNCHANGED <<vars, token_vars, balance_vars, transaction_vars>>
    \/ RunServicesStep /\ UNCHANGED <<vars, token_vars, balance_vars, transaction_vars>>
    \/ RunServicesPanic /\ UNCHANGED <<vars, token_vars, balance_vars, transaction_vars>>

SpecLaunch == Init /\ [][NextLaunch]_all_vars

\* The strategies making and saving transactions.
NextTransaction ==
    \/ \E side \in OrderSide, status \in TransactionStatus :
            NewTransaction(side, status)
                /\ UNCHANGED <<vars, token_vars, balance_vars, launch_vars>>
    \/ \E transaction_id \in TransactionIds, status \in TransactionStatus,
          recorder_result \in {Ok, Err} :
            SaveTransaction(transaction_id, status, recorder_result)
                /\ UNCHANGED <<vars, token_vars, balance_vars, launch_vars>>

SpecTransaction == Init /\ [][NextTransaction]_all_vars

\* ------------------------------------------------------------------- claims
CreationEventOps == {"create_order_succeeded", "create_order_failed"}

\* The step is one creation event handed to a handler, directly or by
\* create_order on the answer of the exchange.
CreationStep ==
    /\ calls' = calls + 1
    /\ last'.op \in CreationEventOps \cup {"create_order_return"}

\* C1: no order ever leaves a terminal state: once the status of an order is
\* FailedToCreate, Canceled, Completed or FailedToCancel, no step (a creation
\* success or failure from any source, repeated or not) changes it.
NoOrderLeavesTerminalState ==
    [][\A c \in DOMAIN orders :
          is_finished(orders[c].status) =>
              /\ c \in DOMAIN orders'
              /\ orders'[c].status = orders[c].status]_vars

\* A creation success has been delivered to a Completed order, which is still
\* Completed.
CreationSuccessOnCompletedOrder ==
    /\ last.op = "create_order_succeeded"
    /\ last.pre_status = "Completed"
    /\ orders[last.client_order_id].status = "Completed"

\* C2: exchange_order_id, once set, is immutable: no step changes an
\* exchange_order_id that is set, whatever id a later creation success carries.
ExchangeOrderIdImmutable ==
    [][\A c \in DOMAIN orders :
          orders[c].exchange_order_id # None =>
              orders'[c].exchange_order_id = orders[c].exchange_order_id]_vars

\* C3: a creation event delivered for an order in a terminal status leaves
\* every field of the order records and every index of the pool unchanged.
TerminalOrderNotMutated ==
    [][(CreationStep /\ is_finished(last'.pre_status)) =>
          UNCHANGED <<orders, by_exchange_id, not_finished>>]_vars

\* C4: the only status changes creation handling performs are
\* Creating -> Created on a creation success and Creating -> FailedToCreate on
\* a creation failure; an order in any other status, Created and Canceling
\* among them, and every order the event is not for, keeps its status.
CreationHandlingFollowsDiagram ==
    [][CreationStep =>
          \A c \in DOMAIN orders :
              orders'[c].status # orders[c].status =>
                  /\ c = last'.client_order_id
                  /\ orders[c].status = "Creating"
                  /\ orders'[c].status \in {"Created", "FailedToCreate"}
                  /\ last'.op = "create_order_succeeded" => orders'[c].status = "Created"
                  /\ last'.op = "create_order_failed" =>
                        orders'[c].status = "FailedToCreate"]_vars

\* A creation failure has been delivered to a Canceling order and a creation
\* success to a Created one.
CreationEventOnLiveOrder ==
    \/ /\ last.op = "create_order_failed"
       /\ last.pre_status = "Canceling"
       /\ orders[last.client_order_id].status = "Canceling"
    \/ /\ last.op = "create_order_succeeded"
       /\ last.pre_status = "Created"
       /\ orders[last.client_order_id].status = "Created"

\* What the pool holds of order c once a creation success (c, e, s) has
\* created it, h being what the handler gave back.
CreatedBy(h, c, e, s) ==
    /\ h.st.orders[c].exchange_order_id = Some(e)
    /\ e \in DOMAIN h.st.by_exchange_id
    /\ h.st.by_exchange_id[e] = c
    /\ h.st.orders[c].status = "Created"
    /\ h.st.events[c] = Append(events[c], "CreateOrderSucceeded")
    /\ h.st.orders[c].creation_event_source_type = Some(s)

CreationSuccessOnCreatedIgnored ==
    \A c \in DOMAIN orders, e \in ExchangeOrderIds, s \in EventSourceType :
        orders[c].status = "Created" =>
            LET h == handle_create_order_succeeded(Pool, c, e, s)
            IN  h.st = Pool /\ h.result = Ok

\* C7: a creation success for an order in status FailedToCreate returns an
\* error, leaves the status FailedToCreate, adds nothing to by_exchange_id and
\* raises no event.
FailedOrderNotResurrected ==
    \A c \in DOMAIN orders, e \in ExchangeOrderIds, s \in EventSourceType :
        orders[c].status = "FailedToCreate" =>
            LET h == handle_create_order_succeeded(Pool, c, e, s)
            IN  /\ h.result = Err
                /\ h.st.orders[c].status = "FailedToCreate"
                /\ h.st.by_exchange_id = by_exchange_id
                /\ h.st.not_finished = not_finished
                /\ h.st.events = events

\* A creation success has been delivered to a FailedToCreate order and
\* refused.
CreationSuccessOnFailedOrder ==
    /\ last.op = "create_order_succeeded"
    /\ last.pre_status = "FailedToCreate"
    /\ last.result = Err
    /\ orders[last.client_order_id].status = "FailedToCreate"

\* C8: a creation failure for an order in status Creating makes it
\* FailedToCreate, stores the kind and the message of the error, raises
\* CreateOrderFailed and returns success.
CreationFailureFailsOrder ==
    \A c \in DOMAIN orders, x \in ExchangeError, s \in EventSourceType :
        orders[c].status = "Creating" =>
            LET h == handle_create_order_failed(Pool, c, x, s)
            IN  /\ h.result = Ok
                /\ h.st.orders[c].status = "FailedToCreate"
                /\ h.st.orders[c].last_creation_error_type = Some(x.error_type)
                /\ h.st.orders[c].last_creation_error_message = Some(x.message)
                /\ h.st.events[c] = Append(events[c], "CreateOrderFailed")

\* A creation failure has made a Creating order FailedToCreate.
CreatingOrderFailed ==
    /\ last.op = "create_order_failed"
    /\ last.pre_status = "Creating"
    /\ last.result = Ok
    /\ orders[last.client_order_id].status = "FailedToCreate"
    /\ orders[last.client_order_id].last_creation_error_type # None
    /\ events[last.client_order_id] = <<"CreateOrderFailed">>

\* C9: a creation failure with an empty client order id, or with one no order
\* of the pool has, returns an error and leaves the pool as it was: the same
\* orders, the same records, the same indexes.
UnknownCreationFailureRejected ==
    \A c \in (ClientOrderIds \cup {EmptyId}) \ DOMAIN orders,
       x \in ExchangeError, s \in EventSourceType :
        LET h == handle_create_order_failed(Pool, c, x, s)
        IN  h.result = Err /\ h.st = Pool

\* A creation failure for a client order id that is in no order of a pool
\* that holds orders has been rejected.
UnknownCreationFailureDelivered ==
    /\ last.op = "create_order_failed"
    /\ last.client_order_id \in ClientOrderIds \ DOMAIN orders
    /\ last.pre_status = "NoOrder"
    /\ last.result = Err
    /\ DOMAIN orders # {}

\* C10: delivering a creation event twice leaves the order records, the
\* indexes and the events raised as delivering it once does.
DoubleDeliveryIdempotent ==
    /\ \A c \in ClientOrderIds \cup {EmptyId}, e \in ExchangeOrderIds \cup {EmptyId},
          s \in EventSourceType :
            LET once == handle_create_order_succeeded(Pool, c, e, s)
                twice == handle_create_order_succeeded(once.st, c, e, s)
            IN  twice.st = once.st
    /\ \A c \in ClientOrderIds \cup {EmptyId}, x \in ExchangeError, s \in EventSourceType :
            LET once == handle_create_order_failed(Pool, c, x, s)
                twice == handle_create_order_failed(once.st, c, x, s)
            IN  twice.st = once.st

\* The creation success that created an order (same client order id, exchange
\* order id and source) has been delivered to it again.
CreationSuccessDeliveredAgain ==
    /\ last.op = "create_order_succeeded"
    /\ last.pre_status = "Created"
    /\ last.exchange_order_id \in DOMAIN by_exchange_id
    /\ by_exchange_id[last.exchange_order_id] = last.client_order_id
    /\ orders[last.client_order_id].creation_event_source_type = last.source_type
    /\ orders[last.client_order_id].exchange_order_id = Some(last.exchange_order_id)

\* C11: every CreateOrderSucceeded event follows the creation submission of
\* its client order id: an order that has the event is an order create_order
\* has put into the pool, and a creation success for a client order id that is
\* not in the pool raises no event and stores nothing.
CreateOrderSucceededFollowsSubmission ==
    /\ \A c \in ClientOrderIds :
          (\E i \in DOMAIN events[c] : events[c][i] = "CreateOrderSucceeded") =>
              c \in DOMAIN orders
    /\ \A c \in ClientOrderIds \ DOMAIN orders, e \in ExchangeOrderIds,
          s \in EventSourceType :
            handle_create_order_succeeded(Pool, c, e, s).st = Pool

\* A submitted order has its CreateOrderSucceeded event, and a creation
\* success for a client order id that was never submitted has been delivered.
CreationSuccessForUnknownOrder ==
    /\ last.op = "create_order_succeeded"
    /\ last.client_order_id \in ClientOrderIds \ DOMAIN orders
    /\ last.exchange_order_id # EmptyId
    /\ last.result = Ok
    /\ \E c \in DOMAIN orders : events[c] = <<"CreateOrderSucceeded">>

\* C12: the not-finished index holds exactly the orders whose status is not
\* terminal: an order that failed to create is not in it, an order that went
\* from Creating to Created is.
NotFinishedHoldsLiveOrders ==
    \A c \in DOMAIN orders : (c \in not_finished) <=> ~is_finished(orders[c].status)

\* One order has failed to create and has left the not-finished index, while
\* another has been created and is in it.
FailedOrderLeftNotFinished ==
    \E c, d \in DOMAIN orders :
        /\ orders[c].status = "FailedToCreate"
        /\ events[c] = <<"CreateOrderFailed">>
        /\ c \notin not_finished
        /\ orders[d].status = "Created"
        /\ d \in not_finished

\* C13: when create_order_core yields no result (the task was cancelled),
\* create_order returns an error and leaves the pool as it was; an order no
\* event has been delivered for stays Creating, without exchange_order_id and
\* without event.
CancelledCreationLeavesOrder ==
    \A c \in in_flight :
        LET base == create_order_base(Pool, c, None)
        IN  /\ base.st = Pool
            /\ base.result = Err
            /\ ~create_order_return(base, None).ok
            /\ (orders[c] = InitialOrder /\ events[c] = <<>>) =>
                  /\ base.st.orders[c].status = "Creating"
                  /\ base.st.orders[c].exchange_order_id = None
                  /\ base.st.events[c] = <<>>
                  /\ c \in base.st.not_finished

\* create_order has returned an error for a cancelled creation, and the order
\* is in the pool as it was submitted.
CreationCancelledInFlight ==
    /\ last.op = "create_order_cancelled"
    /\ last.result = Err
    /\ last.client_order_id \in DOMAIN orders
    /\ orders[last.client_order_id] = InitialOrder
    /\ events[last.client_order_id] = <<>>
    /\ last.client_order_id \notin in_flight

\* ------------------------------------------------ claims: cancellation tokens
RECURSIVE Ancestors(_)
\* The tokens a token derives from through create_linked_token.
Ancestors(token) ==
    IF tokens[token].source = None
    THEN {}
    ELSE {tokens[token].source[1]} \cup Ancestors(tokens[token].source[1])

RECURSIVE LiveChain(_, _)
\* token derives from ancestor through linked tokens that are all live.
LiveChain(token, ancestor) ==
    /\ tokens[token].state = "live"
    /\ tokens[token].source # None
    /\ \/ tokens[token].source[1] = ancestor
       \/ LiveChain(tokens[token].source[1], ancestor)

\* Some cancel(), called or run by a handler, is working on the token.
CancelRunning(token) ==
    \E task \in Tasks : \E k \in DOMAIN tasks[task] :
        tasks[task][k].op = "cancel" /\ tasks[task][k].token = token

\* The task is in a cancel() called on a token a cancel() had returned for.
InRepeatedCancel(stack) ==
    stack # <<>> /\ stack[1].op = "cancel" /\ stack[1].again

CancelReachesEveryDerivedToken ==
    \A t \in cancel_returned :
        /\ tokens[t].is_cancellation_requested
        /\ \A d \in TokenIds :
              (tokens[d].state = "live" /\ t \in Ancestors(d)) =>
                  is_cancellation_requested(tokens, d)

\* C16: cancellation never propagates upward or sideways: a token reports
\* cancelled only if cancel() was called on it or on a token it derives from.
CancellationOnlyFlowsDown ==
    \A t \in TokenIds :
        tokens[t].is_cancellation_requested =>
            ({t} \cup Ancestors(t)) \cap cancel_called # {}

\* cancel() has returned for a linked token whose source and whose sibling
\* are live and not cancelled.
LinkedTokenCancelledAlone ==
    \E t \in cancel_returned, s \in TokenIds :
        /\ s # t
        /\ tokens[t].source # None
        /\ tokens[s].source = tokens[t].source
        /\ tokens[s].state = "live"
        /\ ~is_cancellation_requested(tokens, s)
        /\ tokens[tokens[t].source[1]].state = "live"
        /\ ~is_cancellation_requested(tokens, tokens[t].source[1])

\* C17: a token that create_linked_token() has returned and whose source was
\* already cancelled when create_linked_token() was called reports cancelled.
LinkedTokenOfCancelledSourceIsCancelled ==
    \A t \in TokenIds :
        (tokens[t].state \in {"live", "dropped"} /\ tokens[t].source_was_cancelled) =>
            tokens[t].is_cancellation_requested

\* create_linked_token() has returned a token made from a cancelled source.
LinkedTokenMadeFromCancelledSource ==
    \E t \in TokenIds :
        /\ tokens[t].state = "live"
        /\ tokens[t].source_was_cancelled
        /\ tokens[t].is_cancellation_requested

\* C18: cancel() releases every when_cancelled() caller in every interleaving:
\* once a token is cancelled and no cancel() is working on it any more, no
\* task is parked in when_cancelled() on it.
CancelReleasesEveryWaiter ==
    \A task \in Tasks :
        At(task, "when_cancelled", "parked") =>
            ~(/\ tokens[Top(tasks[task]).token].is_cancellation_requested
              /\ ~CancelRunning(Top(tasks[task]).token))

\* C19: a dropped linked token does not break its source's cancellation:
\* no cancel() ever runs on a dropped token (its handler is a no-op), and once
\* cancel() has returned for a live token, that token and every token linked
\* to it through live tokens report cancelled.
DroppedLinkedTokenIsSkipped ==
    /\ \A t \in TokenIds : tokens[t].state = "dropped" => ~CancelRunning(t)
    /\ \A t \in cancel_returned :
          tokens[t].state = "live" =>
              /\ is_cancellation_requested(tokens, t)
              /\ \A d \in TokenIds : LiveChain(d, t) => is_cancellation_requested(tokens, d)

\* cancel() has returned for a source one of whose linked tokens had been
\* dropped before its handler ran, and another is live.
SourceCancelledAfterLinkedTokenDropped ==
    \E t \in cancel_returned, c \in TokenIds, s \in TokenIds :
        /\ tokens[t].state = "live"
        /\ tokens[c].source = Some(t)
        /\ tokens[c].state = "dropped"
        /\ ~tokens[c].is_cancellation_requested
        /\ tokens[s].source = Some(t)
        /\ tokens[s].state = "live"
        /\ is_cancellation_requested(tokens, s)

\* ------------------------------------------- claims: balance reservation engine
\* C20: a failed try_reserve has no effect: whenever the required amount is more
\* than the available balance of the reservation currency, try_reserve returns
\* false, leaves the balance manager as it was, so that the available balance is
\* what it was before the call, and get_reservation of the id it leaves (the
\* default one) finds nothing.
FailedTryReserveHasNoEffect ==
    \A a \in ExchangeAccountIds, side \in OrderSide, price \in Prices, amount \in Amounts :
        LET reserve_parameters == ReserveParameters(a, side, price, amount)
            balance == get_balance_by_reserve_parameters(BalanceManager, reserve_parameters)
            reserved == try_reserve(BalanceManager, reserve_parameters)
        IN  (balance # None /\ RequiredAmount(side, price, amount) > balance[1]) =>
                /\ ~reserved.result
                /\ reserved.bm = BalanceManager
                /\ get_reservation(reserved.bm, reserved.reservation_id) = None
                /\ get_balance_by_reserve_parameters(reserved.bm, reserve_parameters) = balance

\* A try_reserve has failed for want of balance while another reservation is
\* held.
TryReserveFailedForBalance ==
    /\ balance_last.op = "try_reserve"
    /\ ~balance_last.result
    /\ balance_last.before # None
    /\ balance_last.after = balance_last.before
    /\ reservations # <<>>

\* C21: a successful try_reserve debits the right currency by the right amount:
\* whenever the available balance covers it, try_reserve returns true, takes
\* amount x price off the available quote balance for Buy and amount off the
\* available base balance for Sell, leaves the other currency's balance and
\* the other reservations alone, and stores under a new id a reservation with
\* the given side, price and amount, unreserved_amount = not_approved_amount =
\* amount and no approved parts.
SuccessfulTryReserveDebits ==
    \A side \in OrderSide, price \in Prices, amount \in Amounts :
        LET a == exchange_account_id_1
            reserve_parameters == ReserveParameters(a, side, price, amount)
            btc == get_balance(BalanceManager, a, "BTC")
            eth == get_balance(BalanceManager, a, "ETH")
            reserved == try_reserve(BalanceManager, reserve_parameters)
            enough == IF side = "Buy"
                      THEN btc # None /\ amount * price <= btc[1]
                      ELSE eth # None /\ amount <= eth[1]
        IN  enough =>
                /\ reserved.result
                /\ reserved.reservation_id \notin DOMAIN reservations
                /\ reserved.reservation_id # 0
                /\ get_reservation(reserved.bm, reserved.reservation_id) =
                       Some([exchange_account_id |-> a, order_side |-> side,
                             price |-> price, amount |-> amount,
                             not_approved_amount |-> amount,
                             unreserved_amount |-> amount, approved_parts |-> <<>>])
                /\ \A id \in DOMAIN reservations :
                       get_reservation(reserved.bm, id) = Some(reservations[id])
                /\ IF side = "Buy"
                   THEN /\ get_balance(reserved.bm, a, "BTC") = Some(btc[1] - amount * price)
                        /\ get_balance(reserved.bm, a, "ETH") = eth
                   ELSE /\ get_balance(reserved.bm, a, "ETH") = Some(eth[1] - amount)
                        /\ get_balance(reserved.bm, a, "BTC") = btc

\* A Buy at a price above one has been reserved after a Sell.
BuyReservedAfterSell ==
    /\ balance_last.op = "try_reserve"
    /\ balance_last.result
    /\ reservation_id > 1
    /\ reservations[reservation_id].order_side = "Buy"
    /\ reservations[reservation_id].price > 1
    /\ \E id \in DOMAIN reservations : reservations[id].order_side = "Sell"

\* What a leg takes from the available balance of a currency.
LegRequires(reserve_parameters, currency_code) ==
    IF ReservationCurrencyCode(reserve_parameters.order_side) = currency_code
    THEN RequiredAmount(reserve_parameters.order_side, reserve_parameters.price,
                        reserve_parameters.amount)
    ELSE 0

\* A multiple reservation of the legs, with result reserved, took all of its
\* legs or none: on success every leg is stored under a new id of its own and
\* every available balance is lower by what the legs of its currency
\* require; on failure the manager is the one before the call and the ids
\* are the default.
AllOrNone(legs, reserved) ==
    LET a == exchange_account_id_1
        count == Len(legs)
        ids == reserved.reservation_id
    IN  IF reserved.result
        THEN /\ \A i \in 1..count :
                    /\ ids[i] # 0
                    /\ ids[i] \notin DOMAIN reservations
                    /\ \A j \in 1..count : i # j => ids[i] # ids[j]
                    /\ get_reservation(reserved.bm, ids[i]) = Some(Reservation(legs[i]))
             /\ DOMAIN reserved.bm.reservations =
                    DOMAIN reservations \cup {ids[i] : i \in 1..count}
             /\ \A id \in DOMAIN reservations :
                    get_reservation(reserved.bm, id) = Some(reservations[id])
             /\ \A c \in CurrencyCodes :
                    LET before == get_balance(BalanceManager, a, c)
                        after == get_balance(reserved.bm, a, c)
                        need == IF count = 2
                                THEN LegRequires(legs[1], c) + LegRequires(legs[2], c)
                                ELSE LegRequires(legs[1], c) + LegRequires(legs[2], c)
                                     + LegRequires(legs[3], c)
                    IN  IF need = 0
                        THEN after = before
                        ELSE before # None /\ after = Some(before[1] - need)
        ELSE /\ reserved.bm = BalanceManager
             /\ \A i \in 1..count :
                    /\ ids[i] = 0
                    /\ get_reservation(reserved.bm, ids[i]) = None
             /\ \A c \in CurrencyCodes :
                    get_balance(reserved.bm, a, c) = get_balance(BalanceManager, a, c)

\* C22: try_reserve_pair and try_reserve_three reserve all of their legs or
\* none: wherever the strategy may call, for every two and every three legs,
\* the call either stores every leg and debits every
\* leg's balance, or stores nothing and leaves every available balance as it
\* was, whichever leg failed.
MultipleReserveIsAtomic ==
    MayCall =>
        \A price \in Prices :
            \A p1 \in Legs(price), p2 \in Legs(price) :
                /\ AllOrNone(<<p1, p2>>, try_reserve_pair(BalanceManager, p1, p2))
                /\ \A p3 \in Legs(price) :
                       AllOrNone(<<p1, p2, p3>>,
                                 try_reserve_three(BalanceManager, p1, p2, p3))

\* A try_reserve_three has failed at its third leg, after two legs fitted.
ThreeFailedAtThirdLeg ==
    /\ balance_last.op = "try_reserve_three"
    /\ ~balance_last.result
    /\ balance_last.path = "third leg failed"
    /\ reservations = <<>>

\* The available balances of the first exchange account.
AvailableBalances(bm) ==
    [c \in CurrencyCodes |-> get_balance(bm, exchange_account_id_1, c)]

\* What moving reservation id to new_price requires beyond its old price.
PriceDelta(id, new_price) ==
    RequiredAmount(reservations[id].order_side, new_price,
                   reservations[id].unreserved_amount)
    - RequiredAmount(reservations[id].order_side, reservations[id].price,
                     reservations[id].unreserved_amount)

\* The reservations of the first exchange account.
KnownReservations ==
    {id \in DOMAIN reservations :
        reservations[id].exchange_account_id = exchange_account_id_1}

\* C23: try_update_reservation to a worse price that the spare balance does
\* not cover returns false and changes nothing: the reservation keeps its
\* price and amounts and every available balance stays.
FailedUpdateHasNoEffect ==
    MayCall => \A id \in KnownReservations, new_price \in Prices :
        LET before == ReservationBalance(BalanceManager, id)
            updated == try_update_reservation(BalanceManager, id, new_price)
        IN  (PriceDelta(id, new_price) > 0
             /\ (before = None \/ before[1] < PriceDelta(id, new_price)))
                => /\ ~updated.result
                   /\ get_reservation(updated.bm, id) = Some(reservations[id])
                   /\ AvailableBalances(updated.bm) = AvailableBalances(BalanceManager)
                   /\ updated.bm = BalanceManager

\* A try_update_reservation has failed for want of balance.
UpdateFailedForBalance ==
    /\ balance_last.op = "try_update_reservation"
    /\ ~balance_last.result
    /\ balance_last.path = "not enough"
    /\ balance_last.before # None
    /\ balance_last.after = balance_last.before

\* C24: try_update_reservation succeeds exactly when the new price requires
\* no more than the old one or the spare balance covers the difference, and
\* then the available balance changes by the old required amount less the
\* new one (up for a better Buy price, down for a worse one, not at all for a
\* Sell), the price is the new price, and the amounts of the reservation, the
\* other reservations and the other balances stay.
SuccessfulUpdateMovesTheDelta ==
    MayCall => \A id \in KnownReservations, new_price \in Prices :
        LET reservation == reservations[id]
            currency_code == ReservationCurrencyCode(reservation.order_side)
            before == ReservationBalance(BalanceManager, id)
            delta == PriceDelta(id, new_price)
            updated == try_update_reservation(BalanceManager, id, new_price)
        IN  /\ updated.result = (delta <= 0 \/ (before # None /\ before[1] >= delta))
            /\ reservation.order_side = "Sell" => delta = 0
            /\ updated.result =>
                  /\ get_reservation(updated.bm, id) =
                        Some([reservation EXCEPT !.price = new_price])
                  /\ updated.bm.reservations[id].not_approved_amount =
                        reservation.not_approved_amount
                  /\ \A other \in DOMAIN reservations \ {id} :
                        get_reservation(updated.bm, other) = Some(reservations[other])
                  /\ DOMAIN updated.bm.reservations = DOMAIN reservations
                  /\ ReservationBalance(updated.bm, id) =
                        IF before = None THEN None ELSE Some(before[1] - delta)
                  /\ \A c \in CurrencyCodes \ {currency_code} :
                        AvailableBalances(updated.bm)[c] = AvailableBalances(BalanceManager)[c]

\* A Buy reservation has moved to a better price and released the difference.
BuyUpdatedToBetterPrice ==
    /\ balance_last.op = "try_update_reservation"
    /\ balance_last.result
    /\ balance_last.before # None
    /\ balance_last.after # None
    /\ balance_last.after[1] > balance_last.before[1]

\* try_reserve of the parameters followed by unreserve of the reserved amount
\* gives back the available balances and the reservations there were, and
\* unreserve of each of the further amounts on the handle fails for want of
\* the reservation.
RoundTrip(reserve_parameters, further_amounts) ==
    LET reserved == try_reserve(BalanceManager, reserve_parameters)
        unreserved == unreserve(reserved.bm, reserved.reservation_id,
                                reserve_parameters.amount)
    IN  reserved.result =>
            /\ unreserved.result
            /\ AvailableBalances(unreserved.bm) = AvailableBalances(BalanceManager)
            /\ AvailableBalances(reserved.bm) # AvailableBalances(BalanceManager)
            /\ get_reservation(reserved.bm, reserved.reservation_id) # None
            /\ get_reservation(unreserved.bm, reserved.reservation_id) = None
            /\ unreserved.bm.reservations = reservations
            /\ \A amount \in further_amounts :
                   LET further == unreserve(unreserved.bm, reserved.reservation_id,
                                            amount)
                   IN  /\ ~further.result
                       /\ further.error = "Can't find reservation_id="
                       /\ further.bm = unreserved.bm

ZeroUnreserveHasNoEffect ==
    MayCall => \A id \in DOMAIN reservations, amount \in UnreserveAmounts :
        LET unreserved == unreserve(BalanceManager, id, amount)
        IN  amount < Epsilon =>
                /\ unreserved.result
                /\ id \in DOMAIN unreserved.bm.reservations
                /\ unreserved.bm.reservations[id].unreserved_amount =
                      reservations[id].unreserved_amount
                /\ unreserved.bm.reservations[id].not_approved_amount =
                      reservations[id].not_approved_amount
                /\ AvailableBalances(unreserved.bm) = AvailableBalances(BalanceManager)
                /\ unreserved.bm = BalanceManager

\* An unreserve of an amount below the tolerance has returned Ok on a
\* reservation with a balance.
ZeroUnreserved ==
    /\ balance_last.op = "unreserve"
    /\ balance_last.result
    /\ balance_last.path = "zero"
    /\ balance_last.before # None
    /\ balance_last.after = balance_last.before
    /\ reservations # <<>>

\* The manager without reservation id.
WithoutReservation(bm, id) ==
    [bm EXCEPT !.reservations =
                   [i \in DOMAIN bm.reservations \ {id} |-> bm.reservations[i]]]

\* C27: unreserve never releases more than is left of the reservation: no
\* unreserve leaves more available than there is without the reservation; an
\* amount over what is left by no more than the tolerance closes the
\* reservation and leaves the balance there is without it; an amount over
\* what is left by more than the tolerance is an error that changes nothing.
UnreserveReleasesAtMostTheRest ==
    MayCall => \A id \in KnownReservations, amount \in UnreserveAmounts :
        LET left == reservations[id].unreserved_amount
            c == ReservationCurrencyCode(reservations[id].order_side)
            without == AvailableBalances(WithoutReservation(BalanceManager, id))
            unreserved == unreserve(BalanceManager, id, amount)
            after == AvailableBalances(unreserved.bm)
        IN  /\ without[c] # None => (after[c] # None /\ after[c][1] <= without[c][1])
            /\ id \in DOMAIN unreserved.bm.reservations =>
                  /\ unreserved.bm.reservations[id].unreserved_amount > 0
                  /\ unreserved.bm.reservations[id].unreserved_amount <= left
            /\ (amount > left /\ amount <= left + Epsilon) =>
                  /\ unreserved.result
                  /\ get_reservation(unreserved.bm, id) = None
                  /\ after = without
            /\ amount > left + Epsilon =>
                  /\ ~unreserved.result
                  /\ unreserved.bm = BalanceManager
                  /\ get_reservation(unreserved.bm, id) = Some(reservations[id])
                  /\ after = AvailableBalances(BalanceManager)

\* An unreserve of more than was left, within the tolerance, has closed the
\* reservation and given its balance back.
OverAskClamped ==
    /\ balance_last.op = "unreserve"
    /\ balance_last.result
    /\ balance_last.path = "clamped"
    /\ balance_last.before # None
    /\ balance_last.after # None
    /\ balance_last.after[1] > balance_last.before[1]

\* C28: unreserve on a reservation whose account id no exchange has returns
\* Ok and changes nothing: the reservation is there with its
\* unreserved_amount, and every available balance stays.
UnknownExchangeUnreserveHasNoEffect ==
    MayCall => \A id \in DOMAIN reservations, amount \in UnreserveAmounts :
        LET unreserved == unreserve(BalanceManager, id, amount)
        IN  reservations[id].exchange_account_id \notin ExchangeAccountIds =>
                /\ unreserved.result
                /\ get_reservation(unreserved.bm, id) = Some(reservations[id])
                /\ AvailableBalances(unreserved.bm) = AvailableBalances(BalanceManager)
                /\ unreserved.bm = BalanceManager

\* An unreserve has returned Ok on a reservation of an unknown exchange
\* account, which is still there.
UnreservedForUnknownExchange ==
    /\ balance_last.op = "unreserve"
    /\ balance_last.result
    /\ balance_last.path = "unknown exchange"
    /\ \E id \in DOMAIN reservations :
           /\ reservations[id].exchange_account_id = unknown_exchange_account_id
           /\ reservations[id].unreserved_amount = reservations[id].amount

\* The virtual diff of a balance request, zero when there is none.
DiffOf(bm, balance_request) ==
    IF balance_request \in DOMAIN bm.balance_diff
    THEN bm.balance_diff[balance_request]
    ELSE 0

\* C30: a snapshot resets exactly the diffs it covers: after
\* update_balances(account, snapshot) the diff of the account is zero for
\* every currency of the snapshot, and the diffs of the account for the other
\* currencies and all diffs of the other accounts are what they were.
SnapshotResetsCoveredDiffs ==
    \A account \in ExchangeAccountIds, snapshot \in BalancesByCurrencyCode :
        LET after == update_balances(BalanceManager, account, snapshot)
        IN  /\ after.balance_by_exchange_id[account] = snapshot
            /\ \A a \in ExchangeAccountIds, c \in CurrencyCodes :
                   DiffOf(after, BalanceRequest(a, c)) =
                       IF a = account /\ c \in DOMAIN snapshot
                       THEN 0
                       ELSE DiffOf(BalanceManager, BalanceRequest(a, c))

\* A snapshot has come in after two diffs were added: it has reset one and
\* kept the other.
SnapshotResetOneDiffOfTwo ==
    /\ balance_last.op = "update_exchange_balance"
    /\ balance_calls = 3
    /\ \E a \in DOMAIN balance_by_exchange_id :
           \E c \in DOMAIN balance_by_exchange_id[a] :
               /\ BalanceRequest(a, c) \in DOMAIN balance_diff
               /\ balance_diff[BalanceRequest(a, c)] = 0
    /\ \E x \in DOMAIN balance_diff : balance_diff[x] # 0

\* C31: a panic at any stage of launch_trading_engine becomes a graceful
\* shutdown request and an Err: once launch_trading_engine has returned after
\* a panic in before_engine_context_init or in run_services, its result is
\* an Err and the lifetime manager has been asked for a graceful shutdown.
PanicBecomesShutdownRequestAndErr ==
    (launch_stage = "returned" /\ launch_panic # None) =>
        /\ launch_result # None
        /\ launch_result[1].tag = Err
        /\ lifetime_manager # None
        /\ lifetime_manager # Some(None)

\* C32: the revision counts the mutations: a new transaction has revision 1,
\* the revision of every transaction is 1 plus the number of save calls made
\* on it, and after a save the transaction has the status given and the
\* event recorder has been handed the snapshot with that status and the
\* revision already increased.
RevisionCountsSaves ==
    /\ \A transaction_id \in DOMAIN transactions :
           transactions[transaction_id].revision = 1 + saves[transaction_id]
    /\ transaction_last.op = "new" =>
           transactions[transaction_last.transaction_id].revision = 1
    /\ transaction_last.op = "save" =>
           /\ transactions[transaction_last.transaction_id].status =
                 transaction_last.status
           /\ event_recorder = Some(transactions[transaction_last.transaction_id])

\* A transaction has been saved twice, the second time with the recorder
\* failing, and has left the status it was made with.
SavedTwice ==
    /\ transaction_last.op = "save"
    /\ transaction_last.result = Err
    /\ saves[transaction_last.transaction_id] = 2
    /\ transactions[transaction_last.transaction_id].revision = 3
    /\ transactions[transaction_last.transaction_id].status = "Finished"

DeltaSequences ==
    UNION {[1..n -> {-1, 1}] : n \in 0..MaxAdds}

RECURSIVE SumOfDeltas(_)
SumOfDeltas(deltas) ==
    IF deltas = <<>> THEN 0 ELSE Head(deltas) + SumOfDeltas(Tail(deltas))

RECURSIVE AddBalances(_, _, _)
\* add_balance of each of the deltas in turn on the balance request.
AddBalances(bm, balance_request, deltas) ==
    IF deltas = <<>>
    THEN bm
    ELSE AddBalances(add_balance(bm, balance_request, Head(deltas)), balance_request,
                     Tail(deltas))

\* add_balance moves the diff it is asked for by the delta, from zero if
\* there was none, and nothing else.
AddBalanceAdjustsOnlyItsDiff ==
    \A a \in ExchangeAccountIds, c \in CurrencyCodes, delta \in {-1, 1} :
        LET balance_request == BalanceRequest(a, c)
            after == add_balance(BalanceManager, balance_request, delta)
        IN  /\ DiffOf(after, balance_request) =
                  DiffOf(BalanceManager, balance_request) + delta
            /\ DOMAIN after.balance_diff = DOMAIN balance_diff \cup {balance_request}
            /\ \A x \in DOMAIN balance_diff \ {balance_request} :
                   after.balance_diff[x] = balance_diff[x]
            /\ after.balance_by_exchange_id = balance_by_exchange_id
            /\ after.reservations = reservations

\* With the deltas added to the diff of each of the currencies of the
\* account, in whatever order, the diff is the sum of the deltas.
SumOfDeltasAdded(account, currency_codes) ==
    \A c \in currency_codes, deltas \in DeltaSequences :
        DiffOf(AddBalances(BalanceManager, BalanceRequest(account, c), deltas),
               BalanceRequest(account, c))
            = SumOfDeltas(deltas)

\* add_balance adjusts only the diff it is asked for, and the diff after the
\* add_balance calls since the last snapshot of the account is the sum of
\* their deltas, whatever the snapshot held.
AddBalanceSumsSinceSnapshot ==
    /\ AddBalanceAdjustsOnlyItsDiff
    /\ balance_last.op = "update_exchange_balance" =>
           SumOfDeltasAdded(balance_last.path, CurrencyCodes)

\* C34: add_balance adjusts only the diff it is asked for: it becomes its
\* previous value, zero if there was none, plus the delta, and every other
\* diff and every actual balance stays; the diff after the add_balance calls
\* since the last snapshot that holds its currency is the sum of their
\* deltas, whatever their order.
AddBalanceSumsSinceCoveringSnapshot ==
    /\ AddBalanceAdjustsOnlyItsDiff
    /\ balance_last.op = "update_exchange_balance" =>
           SumOfDeltasAdded(balance_last.path,
                            DOMAIN balance_by_exchange_id[balance_last.path])

\* Two deltas of the same sign have been added to a diff after the snapshot
\* that holds its currency.
TwoDeltasAddedSinceSnapshot ==
    /\ balance_last.op = "add_balance"
    /\ balance_calls = 3
    /\ \E a \in DOMAIN balance_by_exchange_id :
           \E c \in DOMAIN balance_by_exchange_id[a] :
               /\ BalanceRequest(a, c) \in DOMAIN balance_diff
               /\ balance_diff[BalanceRequest(a, c)] \in {-2, 2}

\* ------------------------------------------- claims: create_order, the pool
\* The answers of create_order_core that carry a ParsingError.
ParsingErrorResponses ==
    {Some([outcome |-> Error(x), source_type |-> s]) :
        x \in {y \in ExchangeError : y.error_type = "ParsingError"},
        s \in EventSourceType}

\* C35: a parsing error on the creation response surfaces to the caller
\* without touching the order: when create_order_core answers with an error of
\* kind ParsingError, handle_create_order_failed is not invoked (the pool, the
\* indexes and the events are as they were), an order in status Creating
\* stays Creating with no event raised, and create_order returns an error.
ParsingErrorLeavesOrderCreating ==
    \A c \in in_flight, r \in ParsingErrorResponses :
        LET base == create_order_base(Pool, c, r)
        IN  /\ base.st = Pool
            /\ ~create_order_return(base, r).ok
            /\ orders[c].status = "Creating" =>
                  /\ base.st.orders[c].status = "Creating"
                  /\ base.st.orders[c].last_creation_error_type = None
                  /\ base.st.events[c] = events[c]
                  /\ c \in base.st.not_finished

\* create_order has returned an error for a response that carried an error,
\* and the order, Creating before, is still as it was submitted: the error
\* was a ParsingError.
ParsingErrorReturned ==
    /\ last.op = "create_order_return"
    /\ last.exchange_order_id = EmptyId
    /\ last.pre_status = "Creating"
    /\ last.result = Err
    /\ last.client_order_id \in DOMAIN orders
    /\ orders[last.client_order_id] = InitialOrder
    /\ events[last.client_order_id] = <<>>
    /\ last.client_order_id \in not_finished
    /\ last.client_order_id \notin in_flight

\* -------------------------------- claims: linking while the source cancels
\* C36: no cancellation is lost when linking races with cancelling: whatever
\* the interleaving of cancel() on a token with create_linked_token() on the
\* same token, once both calls have returned the new linked token, if a
\* caller still holds it, reports cancelled.
LinkingRaceLosesNoCancellation ==
    \A t \in TokenIds :
        (/\ tokens[t].state = "live"
         /\ tokens[t].source # None
         /\ tokens[t].source[1] \in cancel_returned) =>
            tokens[t].is_cancellation_requested

\* create_linked_token() was called on a token that was not cancelled yet,
\* cancel() was called on the same token by another task before it returned,
\* and both have returned: the linked token reports cancelled.
LinkedWhileCancellingReturned ==
    \E t \in TokenIds :
        /\ tokens[t].state = "live"
        /\ tokens[t].linked_while_cancelling
        /\ ~tokens[t].source_was_cancelled
        /\ tokens[t].source # None
        /\ tokens[t].source[1] \in cancel_returned
        /\ \A task \in Tasks : tasks[task] = <<>>
        /\ tokens[t].is_cancellation_requested

\* ----------------------------------------- claims: the pool and its indexes
\* C37: the by-exchange-id index agrees with the order records: in every
\* state creation events lead to, an exchange order id e that by_exchange_id
\* maps to an order is the exchange_order_id of that order.
ByExchangeIdAgreesWithOrders ==
    \A e \in DOMAIN by_exchange_id :
        /\ by_exchange_id[e] \in DOMAIN orders
        /\ orders[by_exchange_id[e]].exchange_order_id = Some(e)

\* C38: create_order returns the order it submitted: whenever create_order
\* returns Ok(order_ref), order_ref is the order of the client order id it was
\* called with, also when the exchange order id of the response is indexed
\* for another order or a notification has created the order before.
CreateOrderReturnsSubmittedOrder ==
    (last.op = "create_order_return" /\ last.result = Ok) =>
        last.returned = Some(last.client_order_id)

\* The events of a creation outcome.
CreationOutcomeEvents == {"CreateOrderSucceeded", "CreateOrderFailed"}

\* How many creation outcome events a sequence of events holds.
CreationOutcomes(raised) ==
    Cardinality({i \in DOMAIN raised : raised[i] \in CreationOutcomeEvents})

\* What a creation handler, having given back h, has raised for the orders:
\* nothing, or one creation outcome event for order c, which was Creating and
\* is not any more.
RaisedOnLeavingCreating(h, c) ==
    /\ \A d \in ClientOrderIds \ {c} : h.st.events[d] = events[d]
    /\ c \in ClientOrderIds =>
          \/ h.st.events[c] = events[c]
          \/ /\ c \in DOMAIN orders
             /\ orders[c].status = "Creating"
             /\ h.st.orders[c].status \in {"Created", "FailedToCreate"}
             /\ \E event_type \in CreationOutcomeEvents :
                    h.st.events[c] = Append(events[c], event_type)

\* C39: a creation outcome event is raised at most once per order: whatever
\* creation successes and failures arrive, from either source, the events of
\* a client order id hold at most one CreateOrderSucceeded or
\* CreateOrderFailed, and a handler raises one only as it takes the order out
\* of status Creating.
CreationOutcomeRaisedOnce ==
    /\ \A c \in ClientOrderIds : CreationOutcomes(events[c]) <= 1
    /\ \A c \in ClientOrderIds \cup {EmptyId}, e \in ExchangeOrderIds \cup {EmptyId},
          s \in EventSourceType :
            RaisedOnLeavingCreating(handle_create_order_succeeded(Pool, c, e, s), c)
    /\ \A c \in ClientOrderIds \cup {EmptyId}, x \in ExchangeError, s \in EventSourceType :
            RaisedOnLeavingCreating(handle_create_order_failed(Pool, c, x, s), c)

\* A creation failure has been delivered to an order that had failed to
\* create and had its CreateOrderFailed already: it still has the one.
CreationEventAfterOutcome ==
    /\ last.op = "create_order_failed"
    /\ last.pre_status = "FailedToCreate"
    /\ last.result = Ok
    /\ events[last.client_order_id] = <<"CreateOrderFailed">>
    /\ CreationOutcomes(events[last.client_order_id]) = 1

\* C40: a creation success never creates a ghost order: with a client order
\* id that is not empty and that no order of the pool has, the handler returns
\* success and the pool, its indexes and its order records are as they were;
\* with an empty client order id or an empty exchange order id it returns an
\* error and they are as they were.
CreationSuccessCreatesNoGhostOrder ==
    /\ \A c \in ClientOrderIds \ DOMAIN orders, e \in ExchangeOrderIds,
          s \in EventSourceType :
            LET h == handle_create_order_succeeded(Pool, c, e, s)
            IN  h.result = Ok /\ h.st = Pool
    /\ \A c \in ClientOrderIds \cup {EmptyId}, e \in ExchangeOrderIds \cup {EmptyId},
          s \in EventSourceType :
            (c = EmptyId \/ e = EmptyId) =>
                LET h == handle_create_order_succeeded(Pool, c, e, s)
                IN  h.result = Err /\ h.st = Pool

\* A creation success with an empty exchange order id has been delivered for
\* an order of the pool and refused, the order left as it was submitted.
EmptyCreationSuccessRefused ==
    /\ last.op = "create_order_succeeded"
    /\ last.exchange_order_id = EmptyId
    /\ last.client_order_id \in DOMAIN orders
    /\ last.pre_status = "Creating"
    /\ last.result = Err
    /\ orders[last.client_order_id] = InitialOrder
    /\ by_exchange_id = <<>>

====
